---------------------------- MODULE Spec2Model ----------------------------
(***************************************************************************)
(* A model of yt2text's streaming transcription / formatting pipeline      *)
(* (src/transcriber.py, transcribe_and_format): the Whisper segment loop   *)
(* that cuts paragraphs, the ThreadPoolExecutor that formats them through  *)
(* _call_llm, the non-blocking poll, the blocking drain, the retry pass,   *)
(* the structure analysis and the final save.                              *)
(*                                                                         *)
(* Strings are modelled run-length encoded: a text is a sequence of        *)
(* pieces [c |-> character, n |-> repetitions], n >= 1, so that a 500      *)
(* character threshold needs no 500 element sequence.  Concatenation of    *)
(* strings is concatenation of piece sequences.  Times are whole seconds.  *)
(* Paragraph indices are 0-based as in the code; paragraphs[idx] of the    *)
(* code is paragraphs[idx + 1] here.  None is the empty sequence << >> and *)
(* a present value v is << v >>.                                           *)
(***************************************************************************)
EXTENDS Integers, Sequences, FiniteSets, TLC

VARIABLES
    source,           \* the segments model.transcribe() will yield (lazy generator)
    sourceFails,      \* whether the generator raises after its last segment
    pos,              \* number of segments pulled from the generator so far
    segment,          \* the segment of the running loop iteration: << >> or <<[text, start, end]>>
    paragraphs,       \* [{"raw": str, "formatted": str|None}, ...]
    current_parts,    \* list of the texts of the paragraph being transcribed
    prev_end,         \* end time of the last non-blank segment
    formatted_count,  \* the counter handed to on_update
    chapter_headers,  \* {paragraph_index: title}
    pending_futures,  \* keys of the dict {paragraph_index: Future}
    futures,          \* the Future of each submitted paragraph: [state, outcome]
    workQueue,        \* the executor's FIFO work queue (paragraph indices)
    executorShutdown, \* executor.shutdown(wait=False) was called
    pc,               \* position of transcribe_and_format
    raised,           \* the exception that left transcribe_and_format ("none" if none)
    drainList,        \* what is left of  for idx in sorted(pending_futures.keys())
    failed_indices,   \* [i for i, p in enumerate(paragraphs) if p["formatted"] is None]
    retryList,        \* what is left of  for idx in failed_indices
    remote,           \* the outcomes the remote service can produce in this run
    structRemote,     \* what the structuring call can end in in this run
    observed,         \* history: the paragraph indices in the order their completion was observed
    retryCalls,       \* history: per paragraph, the outcomes of its retry calls
    slept,            \* history: seconds spent in time.sleep(15) cooldowns
    structCalls,      \* history: the outcomes of the structure-analysis remote calls
    onUpdate,         \* the arguments of the last on_update call: << >> or <<[content, formatted_count, total_paragraphs]>>
    updates,          \* history: the number of on_update calls so far
    storage,          \* the contents written to the transcript file, in order
    tasks,            \* server.py: the dict tasks in insertion order, [status, formatting] each
    _processing,      \* server.py: the flag _processing
    _queue_lock,      \* server.py: the thread that holds _queue_lock, << >> if free
    tpc,              \* server.py: where each HTTP thread and each _run_task thread stands
    cursor,           \* server.py: per thread, the dict iterator of _process_next: [at, size]
    starts,           \* history: per task, how many threads were started for it
    split_text,       \* _split_text: the argument text, a sequence of characters
    chunk_size,       \* _split_text: the argument chunk_size
    split_start,      \* _split_text: the local start (0-based)
    chunks,           \* _split_text: the list chunks
    split_pc,         \* _split_text: "idle", "entry", "loop" or "returned"
    call_attempt,     \* _call_llm: the loop variable attempt
    call_pc,          \* _call_llm: "idle", "try", "returned" or "raised"
    call_result,      \* _call_llm: the value returned, << >> if none
    call_errors,      \* history: the messages of the exceptions of the failed attempts
    call_waits        \* history: the seconds of each time.sleep(wait)

\* the state of one run of transcribe_and_format
pipelineVars ==
        <<source, sourceFails, remote, structRemote, pos, segment, paragraphs, current_parts, prev_end,
          formatted_count, chapter_headers, pending_futures, futures, workQueue,
          executorShutdown, pc, raised, drainList, failed_indices, retryList,
          observed, retryCalls, slept, structCalls, onUpdate, updates, storage>>

\* the state of the server's task queue
serverVars == <<tasks, _processing, _queue_lock, tpc, cursor, starts>>

\* the state of the calls of the helper functions checked on their own
splitVars == <<split_text, chunk_size, split_start, chunks, split_pc>>
callVars == <<call_attempt, call_pc, call_result, call_errors, call_waits>>
unitVars == <<splitVars, callVars>>

vars == <<pipelineVars, serverVars, unitVars>>

-----------------------------------------------------------------------------
(* Bounds of the model. *)

\* longest segment sequence the speech source yields
MaxSegs == 3

\* most tasks submitted to the server
MaxTasks == 3

\* most tasks submitted to the server when its progress is checked
LiveTasks == 2

\* longest text handed to _split_text
MaxText == 7

\* largest chunk_size handed to _split_text
MaxChunk == 3

(* Program constants. *)

GAP_THRESHOLD == 1
MAX_PARAGRAPH_CHARS == 500
MAX_WORKERS == 5
RETRY_COOLDOWN == 15
MIN_STRUCTURE_PARAGRAPHS == 3

-----------------------------------------------------------------------------
(* Strings. *)

Piece(c, n) == [c |-> c, n |-> n]

Whitespace == {" ", "\n"}

NL2 == <<Piece("\n", 2)>>
NL1 == <<Piece("\n", 1)>>

RECURSIVE TextLen(_)
\* len(text)
TextLen(t) == IF t = << >> THEN 0 ELSE Head(t).n + TextLen(Tail(t))

RECURSIVE LStrip(_)
LStrip(t) ==
    IF t = << >> THEN << >>
    ELSE IF Head(t).c \in Whitespace THEN LStrip(Tail(t)) ELSE t

RECURSIVE RStrip(_)
RStrip(t) ==
    IF t = << >> THEN << >>
    ELSE IF t[Len(t)].c \in Whitespace THEN RStrip(SubSeq(t, 1, Len(t) - 1)) ELSE t

\* str.strip()
Strip(t) == RStrip(LStrip(t))

RECURSIVE Join(_, _)
\* sep.join(parts)
Join(parts, sep) ==
    IF parts = << >> THEN << >>
    ELSE IF Len(parts) = 1 THEN parts[1]
    ELSE parts[1] \o sep \o Join(Tail(parts), sep)

\* SumLen that measures the last part only
SumLenLast(parts) == IF parts = << >> THEN 0 ELSE TextLen(parts[Len(parts)])

RECURSIVE SumLen(_)
\* sum(len(p) for p in current_parts)
SumLen(parts) == IF parts = << >> THEN 0 ELSE TextLen(Head(parts)) + SumLen(Tail(parts))

\* audio_path.stem.replace("_", " ")
title == <<Piece("T", 1)>>


-----------------------------------------------------------------------------
(* The speech source: segments {text, start, end} in increasing start order. *)

\* texts a segment may carry: 250 characters after a leading blank, 600
\* characters, and a segment of blanks only
TextA == <<Piece(" ", 1), Piece("a", 250)>>
TextC == <<Piece("c", 600)>>
TextBlank == <<Piece(" ", 2)>>

\* silence, in seconds, between a segment and the one before it
Gaps == {0, 1}

RECURSIVE Timed(_, _)
\* the segments of a choice sequence, each lasting one second
Timed(choices, t) ==
    IF choices = << >> THEN << >>
    ELSE LET c == Head(choices)
             s == t + c.gap
         IN  <<[text |-> c.text, start |-> s, end |-> s + 1]>> \o Timed(Tail(choices), s + 1)

\* the segment sequences of at most n segments with the given texts and gaps
SourcesOf(texts, gaps, n) ==
    { Timed(cs, 0) : cs \in UNION { [1..k -> [text : texts, gap : gaps]] : k \in 0..n } }

-----------------------------------------------------------------------------
(* The remote formatting call, _call_llm: it returns the stripped reply or  *)
(* raises once its attempts are used up.                                    *)

\* what one _call_llm invocation can end in: a reply, a reply that is empty
\* after .strip(), or an exception
Outcomes == {"ok", "empty", "fail"}

\* the reply _call_llm returns for a raw text; tag tells the main pass ("F")
\* from the retry pass ("R")
ReplyText(outcome, raw, tag) ==
    IF outcome = "ok" THEN <<Piece(tag, 1)>> \o raw ELSE << >>

-----------------------------------------------------------------------------
(* Helpers of transcribe_and_format. *)

\* Rendered without the fall-back to the raw text
RenderedNoFallback(p) ==
    IF p.formatted # << >> THEN p.formatted[1] ELSE << >>

\* p["formatted"] if p["formatted"] else p["raw"]
Rendered(p) ==
    IF p.formatted # << >> /\ p.formatted[1] # << >> THEN p.formatted[1] ELSE p.raw

RECURSIVE ContentParts(_, _, _)
\* the list  parts  of _build_content for paragraphs i, i+1, ... (0-based i)
ContentParts(ps, hdrs, i) ==
    IF i >= Len(ps) THEN << >>
    ELSE (IF i \in DOMAIN hdrs
             THEN << <<Piece("#", 2), Piece(" ", 1)>> \o hdrs[i] >>
             ELSE << >>)
         \o <<Rendered(ps[i + 1])>>
         \o ContentParts(ps, hdrs, i + 1)

\* _build_content()
BuildContent(ps, hdrs, parts) ==
    <<Piece("#", 1), Piece(" ", 1)>> \o title \o NL2
    \o Join(ContentParts(ps, hdrs, 0)
            \o (IF parts # << >> THEN <<Join(parts, << >>)>> ELSE << >>),
            NL2)

\* Notify with the document built without the text being transcribed
NotifyWithoutTail(ps, hdrs, parts, count) ==
    <<[content |-> BuildContent(ps, hdrs, << >>),
       formatted_count |-> count,
       total_paragraphs |-> Len(ps)]>>

\* _notify(): the arguments on_update is called with
Notify(ps, hdrs, parts, count) ==
    <<[content |-> BuildContent(ps, hdrs, parts),
       formatted_count |-> count,
       total_paragraphs |-> Len(ps)]>>

\* FailureEscapes with no try/except around future.result()
FailureEscapesUncaught(outcome) == outcome = "fail"

\* whether a failed future's exception leaves the try/except around
\* future.result(): "except Exception" catches it
FailureEscapes(outcome) == FALSE

\* ApplyResult with the result stored at the first paragraph that has no
\* formatted text yet, i.e. in completion order, instead of at its own index
ApplyResultByArrival(ps, idx, fut) ==
    IF fut.outcome = "fail" THEN ps
    ELSE LET k == CHOOSE i \in 1..Len(ps) :
                      /\ ps[i].formatted = << >>
                      /\ \A j \in 1..(i - 1) : ps[j].formatted # << >>
         IN  [ps EXCEPT ![k].formatted = <<ReplyText(fut.outcome, ps[idx + 1].raw, "F")>>]

\* try: paragraphs[idx]["formatted"] = future.result()  except Exception: print
ApplyResult(ps, idx, fut) ==
    IF fut.outcome = "fail" THEN ps
    ELSE [ps EXCEPT ![idx + 1].formatted = <<ReplyText(fut.outcome, ps[idx + 1].raw, "F")>>]

\* sorted(keys)
SortedKeys(S) ==
    [k \in 1..Cardinality(S) |-> CHOOSE x \in S : Cardinality({y \in S : y < x}) = k - 1]

\* FutureDone that takes only a future holding a result for done
FutureDoneWithResult(fut) == fut.state = "done" /\ fut.outcome # "fail"

\* future.done()
FutureDone(fut) == fut.state = "done"

\* CheckOne without the future.done() test: every pending future is taken
CheckOneUntested(st, idx, fut) ==
    IF st.escaped THEN st
    ELSE [paragraphs      |-> ApplyResult(st.paragraphs, idx, fut),
          formatted_count |-> st.formatted_count + 1,
          pending         |-> st.pending \ {idx},
          observed        |-> Append(st.observed, idx),
          escaped         |-> FALSE]

\* one round of the loop of _check_futures: if the future of idx is done its
\* result is applied, the counter incremented and the entry deleted
CheckOne(st, idx, fut) ==
    IF st.escaped \/ ~FutureDone(fut) THEN st
    ELSE IF FailureEscapes(fut.outcome) THEN [st EXCEPT !.escaped = TRUE]
    ELSE [paragraphs      |-> ApplyResult(st.paragraphs, idx, fut),
          formatted_count |-> st.formatted_count + 1,
          pending         |-> st.pending \ {idx},
          observed        |-> Append(st.observed, idx),
          escaped         |-> FALSE]

RECURSIVE CheckKeys(_, _, _)
\* the loop of _check_futures over list(pending_futures.keys()); the state
\* st0 is bound once per round
CheckKeys(keys, futs, st0) ==
    IF keys = << >> THEN st0
    ELSE CHOOSE r \in { CheckKeys(Tail(keys), futs,
                                  CheckOne(st, Head(keys), futs[Head(keys) + 1])) :
                        st \in {st0} } : TRUE

\* _check_futures() without del pending_futures[idx]
CheckFuturesKeepingEntries(ps, count, pend, futs, obs) ==
    [CheckKeys(SortedKeys(pend), futs,
               [paragraphs |-> ps, formatted_count |-> count,
                pending |-> pend, observed |-> obs, escaped |-> FALSE])
        EXCEPT !.pending = pend]

\* _check_futures(): applies every finished future, never waits
CheckFutures(ps, count, pend, futs, obs) ==
    CheckKeys(SortedKeys(pend), futs,
              [paragraphs |-> ps, formatted_count |-> count,
               pending |-> pend, observed |-> obs, escaped |-> FALSE])

\* ShouldFlush that looks at the pause only
ShouldFlushGapOnly(parts, gap, current_len) ==
    parts # << >> /\ gap >= GAP_THRESHOLD

\* the test of the main loop that cuts a paragraph before the new segment
ShouldFlush(parts, gap, current_len) ==
    parts # << >> /\ (gap >= GAP_THRESHOLD \/ current_len >= MAX_PARAGRAPH_CHARS)

\* SubmitParagraph that does not clear current_parts
SubmitParagraphNoClear(ps, parts, futs, queue, pend) ==
    IF parts = << >>
    THEN [paragraphs |-> ps, current_parts |-> parts, futures |-> futs,
          workQueue |-> queue, pending |-> pend]
    ELSE LET idx == Len(ps)
         IN  [paragraphs    |-> Append(ps, [raw |-> Join(parts, << >>), formatted |-> << >>]),
              current_parts |-> parts,
              futures       |-> Append(futs, [state |-> "queued", outcome |-> "none"]),
              workQueue     |-> Append(queue, idx),
              pending       |-> pend \cup {idx}]

\* _submit_paragraph(): the state after it
SubmitParagraph(ps, parts, futs, queue, pend) ==
    IF parts = << >>
    THEN [paragraphs |-> ps, current_parts |-> parts, futures |-> futs,
          workQueue |-> queue, pending |-> pend]
    ELSE LET idx == Len(ps)
         IN  [paragraphs    |-> Append(ps, [raw |-> Join(parts, << >>), formatted |-> << >>]),
              current_parts |-> << >>,
              futures       |-> Append(futs, [state |-> "queued", outcome |-> "none"]),
              workQueue     |-> Append(queue, idx),
              pending       |-> pend \cup {idx}]

\* FailedIndices that takes a paragraph with an empty reply for a failed one
FailedIndicesFalsy(ps) ==
    SortedKeys({i \in 0..(Len(ps) - 1) :
                  ps[i + 1].formatted = << >> \/ ps[i + 1].formatted = << << >> >>})

\* failed_indices = [i for i, p in enumerate(paragraphs) if p["formatted"] is None]
FailedIndices(ps) ==
    SortedKeys({i \in 0..(Len(ps) - 1) : ps[i + 1].formatted = << >>})

-----------------------------------------------------------------------------
(* Structure analysis, _generate_section_headers.  A reply is a sequence of  *)
(* lines and a line a sequence of characters.                                *)

\* characters outside ASCII, by name: the full-width colon U+FF1A and the two
\* characters of the word for "paragraph", U+6BB5 U+843D
FWCOLON == "U+FF1A"
DUAN == "U+6BB5"
LUO == "U+843D"

Digits == {"0", "1", "2", "3", "4", "5", "6", "7", "8", "9"}

DigitVal(d) ==
    CASE d = "0" -> 0 [] d = "1" -> 1 [] d = "2" -> 2 [] d = "3" -> 3 [] d = "4" -> 4
      [] d = "5" -> 5 [] d = "6" -> 6 [] d = "7" -> 7 [] d = "8" -> 8 [] d = "9" -> 9

RECURSIVE CharsLStrip(_)
CharsLStrip(l) ==
    IF l = << >> THEN << >>
    ELSE IF Head(l) \in Whitespace THEN CharsLStrip(Tail(l)) ELSE l

RECURSIVE CharsRStrip(_)
CharsRStrip(l) ==
    IF l = << >> THEN << >>
    ELSE IF l[Len(l)] \in Whitespace THEN CharsRStrip(SubSeq(l, 1, Len(l) - 1)) ELSE l

\* str.strip() on a line
CharsStrip(l) == CharsRStrip(CharsLStrip(l))

\* sep in line
Contains(l, ch) == \E i \in 1..Len(l) : l[i] = ch

\* line.split(sep, 1) for a line that contains sep
SplitFirst(l, ch) ==
    LET k == CHOOSE i \in 1..Len(l) : l[i] = ch /\ \A j \in 1..(i - 1) : l[j] # ch
    IN  <<SubSeq(l, 1, k - 1), SubSeq(l, k + 1, Len(l))>>

RECURSIVE RemoveWord(_)
\* s.replace(DUAN LUO, "")
RemoveWord(l) ==
    IF Len(l) < 2 THEN l
    ELSE IF l[1] = DUAN /\ l[2] = LUO THEN RemoveWord(SubSeq(l, 3, Len(l)))
    ELSE <<l[1]>> \o RemoveWord(Tail(l))

RECURSIVE DecimalValue(_, _)
DecimalValue(l, acc) ==
    IF l = << >> THEN acc ELSE DecimalValue(Tail(l), 10 * acc + DigitVal(Head(l)))

\* int(num_str): << >> for ValueError, <<value>> otherwise (decimal digits
\* with an optional sign)
ParseInt(l) ==
    LET signed == l # << >> /\ Head(l) \in {"-", "+"}
        ds     == IF signed THEN Tail(l) ELSE l
    IN  IF ds = << >> \/ \E i \in 1..Len(ds) : ds[i] \notin Digits THEN << >>
        ELSE <<(IF signed /\ Head(l) = "-" THEN -1 ELSE 1) * DecimalValue(ds, 0)>>

\* a title as a text
CharsText(l) == [i \in 1..Len(l) |-> Piece(l[i], 1)]

\* ParseLine without the test of the index against the paragraph count
ParseLineAnyIndex(rawLine, n) ==
    LET line == CharsStrip(rawLine)
    IN  IF line = << >> \/ (~Contains(line, ":") /\ ~Contains(line, FWCOLON)) THEN << >>
        ELSE LET sep   == IF Contains(line, FWCOLON) THEN FWCOLON ELSE ":"
                 parts == SplitFirst(line, sep)
                 num   == ParseInt(CharsStrip(RemoveWord(parts[1])))
                 ttl   == CharsStrip(parts[2])
             IN  IF num = << >> THEN << >>
                 ELSE IF ttl # << >>
                      THEN <<[idx |-> num[1] - 1, title |-> CharsText(ttl)]>>
                      ELSE << >>

\* the body of the parse loop for one line: the entry it adds, or none
ParseLine(rawLine, n) ==
    LET line == CharsStrip(rawLine)
    IN  IF line = << >> \/ (~Contains(line, ":") /\ ~Contains(line, FWCOLON)) THEN << >>
        ELSE LET sep   == IF Contains(line, FWCOLON) THEN FWCOLON ELSE ":"
                 parts == SplitFirst(line, sep)
                 num   == ParseInt(CharsStrip(RemoveWord(parts[1])))
                 ttl   == CharsStrip(parts[2])
             IN  IF num = << >> THEN << >>
                 ELSE IF 0 <= num[1] - 1 /\ num[1] - 1 < n /\ ttl # << >>
                      THEN <<[idx |-> num[1] - 1, title |-> CharsText(ttl)]>>
                      ELSE << >>

\* headers after one round of the parse loop, e the entry of its line
AddHeader(headers, e) ==
    IF e = << >> THEN headers
    ELSE [i \in (DOMAIN headers) \cup {e[1].idx} |->
             IF i = e[1].idx THEN e[1].title ELSE headers[i]]

RECURSIVE ParseHeaders(_, _, _)
\* headers after the parse loop over the reply's lines; the headers so far
\* are bound once per round
ParseHeaders(lines, n, headers) ==
    IF lines = << >> THEN headers
    ELSE CHOOSE r \in { ParseHeaders(Tail(lines), n, AddHeader(h, e)) :
                        h \in {headers}, e \in {ParseLine(Head(lines), n)} } : TRUE

\* replies of the structuring call
StructReplies ==
    { << <<"f", "o", "o">> >>,
      << <<"f", "o", "o">>, <<"2", ":", "I">> >> }

\* chapter_headers.update(ai_headers)
UpdateHeaders(old, new) ==
    [i \in (DOMAIN old) \cup (DOMAIN new) |-> IF i \in DOMAIN new THEN new[i] ELSE old[i]]

\* what the structuring call can end in: an exception, or a reply
StructOutcomes ==
    {[ok |-> FALSE, lines |-> << >>]} \cup {[ok |-> TRUE, lines |-> r] : r \in StructReplies}

-----------------------------------------------------------------------------
(* The server's module state after import (src/server.py:38-41): no task,   *)
(* nothing processing, the lock free.  One HTTP thread and one _run_task    *)
(* thread can exist per task.                                               *)

\* the threads: the HTTP thread that creates task i, the thread that runs it
Threads == {"http", "run"} \X (1..MaxTasks)

\* no iteration is under way in a thread
NoCursor == [at |-> 0, size |-> 0]

ServerInit ==
    /\ tasks = << >>
    /\ _processing = FALSE
    /\ _queue_lock = << >>
    /\ tpc = [t \in Threads |-> "none"]
    /\ cursor = [t \in Threads |-> NoCursor]
    /\ starts = [i \in 1..MaxTasks |-> 0]

-----------------------------------------------------------------------------
(* The state after construction: transcribe_and_format up to its main loop. *)

PipelineInit(sources, fails, outcomes, structs) ==
    /\ source \in sources
    /\ sourceFails \in fails
    /\ remote = outcomes
    /\ structRemote = structs
    /\ pos = 0
    /\ segment = << >>
    /\ paragraphs = << >>
    /\ current_parts = << >>
    /\ prev_end = 0
    /\ formatted_count = 0
    /\ chapter_headers = << >>
    /\ pending_futures = {}
    /\ futures = << >>
    /\ workQueue = << >>
    /\ executorShutdown = FALSE
    /\ pc = "loop"
    /\ raised = "none"
    /\ drainList = << >>
    /\ failed_indices = << >>
    /\ retryList = << >>
    /\ observed = << >>
    /\ retryCalls = << >>
    /\ slept = 0
    /\ structCalls = << >>
    /\ onUpdate = << >>
    /\ updates = 0
    /\ storage = << >>

\* _split_text is not being called on its own
SplitIdle ==
    /\ split_text = << >>
    /\ chunk_size = 1
    /\ split_start = 0
    /\ chunks = << >>
    /\ split_pc = "idle"

\* _call_llm is not being called on its own
CallIdle ==
    /\ call_attempt = 0
    /\ call_pc = "idle"
    /\ call_result = << >>
    /\ call_errors = << >>
    /\ call_waits = << >>

\* no helper function is being called on its own
UnitsIdle == SplitIdle /\ CallIdle

\* the pipeline before its main loop in a server that has no task
InitAll(sources, fails, outcomes, structs) ==
    /\ PipelineInit(sources, fails, outcomes, structs)
    /\ ServerInit
    /\ UnitsIdle

\* the same with the structuring call ending in one of StructOutcomes
InitWith(sources, fails, outcomes) == InitAll(sources, fails, outcomes, StructOutcomes)

-----------------------------------------------------------------------------
(* The executor's worker threads. *)

Running == {i \in 1..Len(futures) : futures[i].state = "running"}

\* WorkerFree of an executor that starts a thread for every job
WorkerFreeUnbounded == TRUE

\* whether a worker thread is free to take the next queued job
WorkerFree == Cardinality(Running) < MAX_WORKERS

\* a free worker thread takes the oldest queued job and starts _call_llm
WorkerStart ==
    /\ workQueue # << >>
    /\ WorkerFree
    /\ futures' = [futures EXCEPT ![Head(workQueue) + 1].state = "running"]
    /\ workQueue' = Tail(workQueue)
    /\ UNCHANGED <<serverVars, unitVars, source, sourceFails, remote, structRemote, observed, pos, segment, paragraphs, current_parts,
                   prev_end, formatted_count, chapter_headers, pending_futures,
                   executorShutdown, pc, raised, drainList, failed_indices,
                   retryList, retryCalls, slept, structCalls, onUpdate, updates, storage>>

\* WorkerFinish of a pool that a failing job brings down: the jobs still
\* queued are cancelled
WorkerFinishCancelling ==
    \E i \in Running, o \in remote :
        /\ futures' = [k \in 1..Len(futures) |->
                          IF k = i THEN [state |-> "done", outcome |-> o]
                          ELSE IF o = "fail" /\ futures[k].state = "queued"
                               THEN [state |-> "cancelled", outcome |-> "fail"]
                               ELSE futures[k]]
        /\ workQueue' = IF o = "fail" THEN << >> ELSE workQueue
        /\ UNCHANGED <<serverVars, unitVars, source, sourceFails, remote, structRemote, observed, pos, segment, paragraphs, current_parts,
                       prev_end, formatted_count, chapter_headers, pending_futures,
                       executorShutdown, pc, raised, drainList,
                       failed_indices, retryList, retryCalls, slept, structCalls,
                       onUpdate, updates, storage>>

\* a running _call_llm returns or raises; the future becomes done
WorkerFinish ==
    \E i \in Running, o \in remote :
        /\ futures' = [futures EXCEPT ![i] = [state |-> "done", outcome |-> o]]
        /\ UNCHANGED <<serverVars, unitVars, source, sourceFails, remote, structRemote, observed, pos, segment, paragraphs, current_parts,
                       prev_end, formatted_count, chapter_headers, pending_futures,
                       workQueue, executorShutdown, pc, raised, drainList,
                       failed_indices, retryList, retryCalls, slept, structCalls,
                       onUpdate, updates, storage>>

-----------------------------------------------------------------------------
(* The main loop:  for segment in segments. *)

\* next(segments) yields a segment: strip it, skip it if blank, else cut the
\* running paragraph if the gap or the length calls for it
NextSegment ==
    /\ pc = "loop"
    /\ pos < Len(source)
    /\ pos' = pos + 1
    /\ LET seg  == source[pos + 1]
           text == Strip(seg.text)
       IN  IF text = << >>
           THEN UNCHANGED <<segment, paragraphs, current_parts, futures, workQueue,
                            pending_futures, pc>>
           ELSE LET gap         == seg.start - prev_end
                    current_len == SumLen(current_parts)
                    sub == IF ShouldFlush(current_parts, gap, current_len)
                           THEN SubmitParagraph(paragraphs, current_parts, futures,
                                                workQueue, pending_futures)
                           ELSE [paragraphs |-> paragraphs, current_parts |-> current_parts,
                                 futures |-> futures, workQueue |-> workQueue,
                                 pending |-> pending_futures]
                IN  /\ segment' = <<[text |-> text, start |-> seg.start, end |-> seg.end]>>
                    /\ paragraphs' = sub.paragraphs
                    /\ current_parts' = sub.current_parts
                    /\ futures' = sub.futures
                    /\ workQueue' = sub.workQueue
                    /\ pending_futures' = sub.pending
                    /\ pc' = "check"
    /\ UNCHANGED <<serverVars, unitVars, source, sourceFails, remote, structRemote, observed, prev_end, formatted_count, chapter_headers,
                   executorShutdown, raised, drainList, failed_indices, retryList,
                   retryCalls, slept, structCalls, onUpdate, updates, storage>>

\* the rest of the loop body as another definition: prev_end is left as it was
AppendSegmentKeepingEnd ==
    /\ pc = "check"
    /\ \E st \in {CheckFutures(paragraphs, formatted_count, pending_futures, futures, observed)} :
           /\ paragraphs' = st.paragraphs
           /\ observed' = st.observed
           /\ formatted_count' = st.formatted_count
           /\ pending_futures' = st.pending
           /\ IF st.escaped
              THEN /\ pc' = "failed"
                   /\ raised' = "FormattingFailure"
                   /\ UNCHANGED <<segment, current_parts, prev_end, onUpdate, updates>>
              ELSE /\ current_parts' = Append(current_parts, segment[1].text)
                   /\ prev_end' = prev_end
                   /\ segment' = << >>
                   /\ updates' = updates + 1
                   /\ onUpdate' = Notify(st.paragraphs, chapter_headers,
                                         current_parts', st.formatted_count)
                   /\ pc' = "loop"
                   /\ UNCHANGED raised
    /\ UNCHANGED <<serverVars, unitVars, source, sourceFails, remote, structRemote, pos, chapter_headers, futures, workQueue,
                   executorShutdown, drainList, failed_indices, retryList,
                   retryCalls, slept, structCalls, storage>>

\* the rest of the loop body: _check_futures(), append the text, _notify()
AppendSegment ==
    /\ pc = "check"
    /\ \E st \in {CheckFutures(paragraphs, formatted_count, pending_futures, futures, observed)} :
           /\ paragraphs' = st.paragraphs
           /\ observed' = st.observed
           /\ formatted_count' = st.formatted_count
           /\ pending_futures' = st.pending
           /\ IF st.escaped
              THEN /\ pc' = "failed"
                   /\ raised' = "FormattingFailure"
                   /\ UNCHANGED <<segment, current_parts, prev_end, onUpdate, updates>>
              ELSE /\ current_parts' = Append(current_parts, segment[1].text)
                   /\ prev_end' = segment[1].end
                   /\ segment' = << >>
                   /\ updates' = updates + 1
                   /\ onUpdate' = Notify(st.paragraphs, chapter_headers,
                                         current_parts', st.formatted_count)
                   /\ pc' = "loop"
                   /\ UNCHANGED raised
    /\ UNCHANGED <<serverVars, unitVars, source, sourceFails, remote, structRemote, pos, chapter_headers, futures, workQueue,
                   executorShutdown, drainList, failed_indices, retryList,
                   retryCalls, slept, structCalls, storage>>

\* SourceRaises with the exception taken for the end of the stream
SourceRaisesSwallowed ==
    /\ pc = "loop"
    /\ pos = Len(source)
    /\ sourceFails
    /\ pc' = "final_check"
    /\ UNCHANGED <<serverVars, unitVars, source, sourceFails, remote, structRemote, observed, pos, segment, paragraphs, current_parts,
                   prev_end, formatted_count, chapter_headers, pending_futures,
                   futures, workQueue, executorShutdown, raised, drainList, failed_indices,
                   retryList, retryCalls, slept, structCalls, onUpdate, updates, storage>>

\* the speech engine raises: the exception leaves transcribe_and_format
SourceRaises ==
    /\ pc = "loop"
    /\ pos = Len(source)
    /\ sourceFails
    /\ pc' = "failed"
    /\ raised' = "FatalSourceError"
    /\ UNCHANGED <<serverVars, unitVars, source, sourceFails, remote, structRemote, observed, pos, segment, paragraphs, current_parts,
                   prev_end, formatted_count, chapter_headers, pending_futures,
                   futures, workQueue, executorShutdown, drainList, failed_indices,
                   retryList, retryCalls, slept, structCalls, onUpdate, updates, storage>>

\* the generator is exhausted: submit the last paragraph
EndOfStream ==
    /\ pc = "loop"
    /\ pos = Len(source)
    /\ ~sourceFails
    /\ \E sub \in {SubmitParagraph(paragraphs, current_parts, futures, workQueue,
                                    pending_futures)} :
           /\ paragraphs' = sub.paragraphs
           /\ current_parts' = sub.current_parts
           /\ futures' = sub.futures
           /\ workQueue' = sub.workQueue
           /\ pending_futures' = sub.pending
    /\ pc' = "final_check"
    /\ UNCHANGED <<serverVars, unitVars, source, sourceFails, remote, structRemote, observed, pos, segment, prev_end, formatted_count,
                   chapter_headers, executorShutdown, raised, drainList,
                   failed_indices, retryList, retryCalls, slept, structCalls,
                   onUpdate, updates, storage>>

\* FinalCheck after which the drain waits for every paragraph's job, observed or not
FinalCheckDrainingAll ==
    /\ pc = "final_check"
    /\ \E st \in {CheckFutures(paragraphs, formatted_count, pending_futures, futures, observed)} :
           /\ paragraphs' = st.paragraphs
           /\ observed' = st.observed
           /\ formatted_count' = st.formatted_count
           /\ pending_futures' = st.pending
           /\ IF st.escaped
              THEN /\ pc' = "failed"
                   /\ raised' = "FormattingFailure"
                   /\ UNCHANGED <<onUpdate, updates, drainList>>
              ELSE /\ updates' = updates + 1
                   /\ onUpdate' = Notify(st.paragraphs, chapter_headers, current_parts,
                                         st.formatted_count)
                   /\ drainList' = SortedKeys(0..(Len(st.paragraphs) - 1))
                   /\ pc' = "drain"
                   /\ UNCHANGED raised
    /\ UNCHANGED <<serverVars, unitVars, source, sourceFails, remote, structRemote, pos, segment, current_parts, prev_end,
                   chapter_headers, futures, workQueue, executorShutdown,
                   failed_indices, retryList, retryCalls, slept, structCalls, storage>>

\* _check_futures(); _notify() after the loop, then the drain loop is entered
FinalCheck ==
    /\ pc = "final_check"
    /\ \E st \in {CheckFutures(paragraphs, formatted_count, pending_futures, futures, observed)} :
           /\ paragraphs' = st.paragraphs
           /\ observed' = st.observed
           /\ formatted_count' = st.formatted_count
           /\ pending_futures' = st.pending
           /\ IF st.escaped
              THEN /\ pc' = "failed"
                   /\ raised' = "FormattingFailure"
                   /\ UNCHANGED <<onUpdate, updates, drainList>>
              ELSE /\ updates' = updates + 1
                   /\ onUpdate' = Notify(st.paragraphs, chapter_headers, current_parts,
                                         st.formatted_count)
                   /\ drainList' = SortedKeys(st.pending)
                   /\ pc' = "drain"
                   /\ UNCHANGED raised
    /\ UNCHANGED <<serverVars, unitVars, source, sourceFails, remote, structRemote, pos, segment, current_parts, prev_end,
                   chapter_headers, futures, workQueue, executorShutdown,
                   failed_indices, retryList, retryCalls, slept, structCalls, storage>>

-----------------------------------------------------------------------------
(* The drain:  for idx in sorted(pending_futures.keys()): future.result(). *)

\* future.result() blocks until the future is done, then its result is
\* applied, the counter incremented and on_update called
DrainOne ==
    /\ pc = "drain"
    /\ drainList # << >>
    /\ LET idx == Head(drainList)
           fut == futures[idx + 1]
       IN  /\ FutureDone(fut)
           /\ IF FailureEscapes(fut.outcome)
              THEN /\ pc' = "failed"
                   /\ raised' = "FormattingFailure"
                   /\ UNCHANGED <<paragraphs, formatted_count, onUpdate, updates, drainList, observed>>
              ELSE /\ paragraphs' = ApplyResult(paragraphs, idx, fut)
                   /\ observed' = Append(observed, idx)
                   /\ formatted_count' = formatted_count + 1
                   /\ updates' = updates + 1
                   /\ onUpdate' = Notify(paragraphs', chapter_headers, current_parts,
                                         formatted_count')
                   /\ drainList' = Tail(drainList)
                   /\ UNCHANGED <<pc, raised>>
    /\ UNCHANGED <<serverVars, unitVars, source, sourceFails, remote, structRemote, pos, segment, current_parts, prev_end,
                   chapter_headers, pending_futures, futures, workQueue,
                   executorShutdown, failed_indices, retryList, retryCalls, slept,
                   structCalls, storage>>

\* DrainEnd that does not wait for the drain loop to come to its end
DrainEndEarly ==
    /\ pc = "drain"
    /\ pending_futures' = {}
    /\ failed_indices' = FailedIndices(paragraphs)
    /\ retryList' = failed_indices'
    /\ retryCalls' = [i \in 0..(Len(paragraphs) - 1) |-> << >>]
    /\ slept' = IF failed_indices' # << >> THEN slept + RETRY_COOLDOWN ELSE slept
    /\ pc' = "retry"
    /\ UNCHANGED <<serverVars, unitVars, source, sourceFails, remote, structRemote, observed, pos, segment, paragraphs, current_parts,
                   prev_end, formatted_count, chapter_headers, futures, workQueue,
                   executorShutdown, raised, drainList, structCalls, onUpdate, updates, storage>>

\* pending_futures.clear(); collect the failed paragraphs and, if there are
\* any, sleep through the cooldown before the retry loop
DrainEnd ==
    /\ pc = "drain"
    /\ drainList = << >>
    /\ pending_futures' = {}
    /\ failed_indices' = FailedIndices(paragraphs)
    /\ retryList' = failed_indices'
    /\ retryCalls' = [i \in 0..(Len(paragraphs) - 1) |-> << >>]
    /\ slept' = IF failed_indices' # << >> THEN slept + RETRY_COOLDOWN ELSE slept
    /\ pc' = "retry"
    /\ UNCHANGED <<serverVars, unitVars, source, sourceFails, remote, structRemote, observed, pos, segment, paragraphs, current_parts,
                   prev_end, formatted_count, chapter_headers, futures, workQueue,
                   executorShutdown, raised, drainList, structCalls, onUpdate, updates, storage>>

-----------------------------------------------------------------------------
(* The retry pass:  for idx in failed_indices: _call_llm(...), synchronously. *)

\* the paragraph after its retry call ended in outcome o
RetryResult(p, o) ==
    IF o = "fail" THEN p ELSE [p EXCEPT !.formatted = <<ReplyText(o, p.raw, "R")>>]

RetryOne ==
    /\ pc = "retry"
    /\ retryList # << >>
    /\ \E o \in remote :
         LET idx == Head(retryList)
         IN  /\ retryCalls' = [retryCalls EXCEPT ![idx] = Append(@, o)]
             /\ paragraphs' = [paragraphs EXCEPT ![idx + 1] = RetryResult(@, o)]
             /\ updates' = IF o = "fail" THEN updates ELSE updates + 1
             /\ onUpdate' = IF o = "fail" THEN onUpdate
                            ELSE Notify(paragraphs', chapter_headers, current_parts,
                                        formatted_count)
    /\ retryList' = Tail(retryList)
    /\ UNCHANGED <<serverVars, unitVars, source, sourceFails, remote, structRemote, observed, pos, segment, current_parts, prev_end,
                   formatted_count, chapter_headers, pending_futures, futures,
                   workQueue, executorShutdown, pc, raised, drainList,
                   failed_indices, slept, structCalls, storage>>

\* the retry loop is over (or was not entered): executor.shutdown(wait=False)
RetryEnd ==
    /\ pc = "retry"
    /\ retryList = << >>
    /\ executorShutdown' = TRUE
    /\ pc' = "structure"
    /\ UNCHANGED <<serverVars, unitVars, source, sourceFails, remote, structRemote, observed, pos, segment, paragraphs, current_parts,
                   prev_end, formatted_count, chapter_headers, pending_futures,
                   futures, workQueue, raised, drainList, failed_indices, retryList,
                   retryCalls, slept, structCalls, onUpdate, updates, storage>>

-----------------------------------------------------------------------------
(* Structure analysis and the final save. *)

\* StructureDue that asks for one paragraph only
StructureDueNonEmpty(n) == n >= 1

\* if len(paragraphs) >= 3
StructureDue(n) == n >= MIN_STRUCTURE_PARAGRAPHS

\* Structure without the try/except around the structuring call
StructureRaising ==
    /\ pc = "structure"
    /\ IF StructureDue(Len(paragraphs))
       THEN \E r \in structRemote :
              LET ai_headers == IF r.ok THEN ParseHeaders(r.lines, Len(paragraphs), << >>)
                                ELSE << >>
              IN  /\ structCalls' = Append(structCalls, r)
                  /\ IF DOMAIN ai_headers # {}
                     THEN /\ chapter_headers' = UpdateHeaders(chapter_headers, ai_headers)
                          /\ updates' = updates + 1
                          /\ onUpdate' = Notify(paragraphs, chapter_headers', current_parts,
                                                formatted_count)
                     ELSE UNCHANGED <<chapter_headers, onUpdate, updates>>
                  /\ pc' = IF r.ok THEN "save" ELSE "failed"
                  /\ raised' = IF r.ok THEN raised ELSE "StructureAnalysisFailure"
       ELSE /\ UNCHANGED <<structCalls, chapter_headers, onUpdate, updates, raised>>
            /\ pc' = "save"
    /\ UNCHANGED <<serverVars, unitVars, source, sourceFails, remote, structRemote, observed, pos, segment, paragraphs, current_parts,
                   prev_end, formatted_count, pending_futures, futures, workQueue,
                   executorShutdown, drainList, failed_indices, retryList,
                   retryCalls, slept, storage>>

\* if len(paragraphs) >= 3: one structuring call; its headers, if any, are
\* merged into chapter_headers and on_update is called; a failure is swallowed
Structure ==
    /\ pc = "structure"
    /\ IF StructureDue(Len(paragraphs))
       THEN \E r \in structRemote :
              LET ai_headers == IF r.ok THEN ParseHeaders(r.lines, Len(paragraphs), << >>)
                                ELSE << >>
              IN  /\ structCalls' = Append(structCalls, r)
                  /\ IF DOMAIN ai_headers # {}
                     THEN /\ chapter_headers' = UpdateHeaders(chapter_headers, ai_headers)
                          /\ updates' = updates + 1
                          /\ onUpdate' = Notify(paragraphs, chapter_headers', current_parts,
                                                formatted_count)
                     ELSE UNCHANGED <<chapter_headers, onUpdate, updates>>
       ELSE UNCHANGED <<structCalls, chapter_headers, onUpdate, updates>>
    /\ pc' = "save"
    /\ UNCHANGED <<serverVars, unitVars, source, sourceFails, remote, structRemote, observed, pos, segment, paragraphs, current_parts,
                   prev_end, formatted_count, pending_futures, futures, workQueue,
                   executorShutdown, raised, drainList, failed_indices, retryList,
                   retryCalls, slept, storage>>

\* Save that writes the file a second time
SaveTwice ==
    /\ pc = "save"
    /\ storage' = storage \o <<BuildContent(paragraphs, chapter_headers, current_parts) \o NL1,
                               BuildContent(paragraphs, chapter_headers, current_parts) \o NL1>>
    /\ pc' = "done"
    /\ UNCHANGED <<serverVars, unitVars, source, sourceFails, remote, structRemote, observed, pos, segment, paragraphs, current_parts,
                   prev_end, formatted_count, chapter_headers, pending_futures,
                   futures, workQueue, executorShutdown, raised, drainList,
                   failed_indices, retryList, retryCalls, slept, structCalls, onUpdate, updates>>

\* final_content = _build_content() + "\n" is written to the transcript file
Save ==
    /\ pc = "save"
    /\ storage' = Append(storage, BuildContent(paragraphs, chapter_headers, current_parts) \o NL1)
    /\ pc' = "done"
    /\ UNCHANGED <<serverVars, unitVars, source, sourceFails, remote, structRemote, observed, pos, segment, paragraphs, current_parts,
                   prev_end, formatted_count, chapter_headers, pending_futures,
                   futures, workQueue, executorShutdown, raised, drainList,
                   failed_indices, retryList, retryCalls, slept, structCalls, onUpdate, updates>>

-----------------------------------------------------------------------------
(* The pipeline on short recordings: every stage, every outcome of the     *)
(* remote calls, a speech source that may raise.                           *)

Init == InitWith(SourcesOf({TextA, TextBlank}, Gaps, MaxSegs), BOOLEAN, Outcomes)

Next ==
    \/ WorkerStart
    \/ WorkerFinish
    \/ NextSegment
    \/ AppendSegment
    \/ SourceRaises
    \/ EndOfStream
    \/ FinalCheck
    \/ DrainOne
    \/ DrainEnd
    \/ RetryOne
    \/ RetryEnd
    \/ Structure
    \/ Save

Spec == Init /\ [][Next]_vars

-----------------------------------------------------------------------------
(* The same pipeline under the scheduling the program runs with: the thread *)
(* of transcribe_and_format keeps running, a free worker thread takes a     *)
(* queued job, and every remote call returns or fails in the end.  Every    *)
(* step is a step of one of these threads, so together they guarantee that  *)
(* the program does not stop while some step is possible: WF_vars(Next).    *)

\* longest segment sequence of the runs checked for termination
LiveSegs == 3

\* recordings in which a one second pause precedes every segment, so that
\* every segment becomes a paragraph
LiveInit == InitWith(SourcesOf({TextA}, {1}, LiveSegs), BOOLEAN, Outcomes)

FairSpec == LiveInit /\ [][Next]_vars /\ WF_vars(Next)

-----------------------------------------------------------------------------
(* The pipeline on recordings of many paragraphs, more than the executor    *)
(* has worker threads: a pause precedes every segment, the source does not  *)
(* raise and the formatting calls of a run either all succeed or all fail.  *)
(* SourceRaises is never enabled in these runs.                             *)

\* longest segment sequence of these recordings
PoolSegs == 7

PoolInit ==
    \E o \in {"ok", "fail"} :
        InitWith(SourcesOf({TextA}, {1}, PoolSegs), {FALSE}, {o})

PoolNext ==
    \/ WorkerStart
    \/ WorkerFinish
    \/ NextSegment
    \/ AppendSegment
    \/ EndOfStream
    \/ FinalCheck
    \/ DrainOne
    \/ DrainEnd
    \/ RetryOne
    \/ RetryEnd
    \/ Structure
    \/ Save

SpecPool == PoolInit /\ [][PoolNext]_vars

-----------------------------------------------------------------------------
(* The pipeline on recordings that exercise the segmenter: short, long and  *)
(* blank segments, with and without a pause before them.  The source does   *)
(* not raise and the formatting calls succeed, so SourceRaises and RetryOne *)
(* are never enabled in these runs.                                         *)

\* longest segment sequence of these recordings
SegSegs == 3

SegInit == InitWith(SourcesOf({TextA, TextC, TextBlank}, Gaps, SegSegs), {FALSE}, {"ok"})

SegNext ==
    \/ WorkerStart
    \/ WorkerFinish
    \/ NextSegment
    \/ AppendSegment
    \/ EndOfStream
    \/ FinalCheck
    \/ DrainOne
    \/ DrainEnd
    \/ RetryEnd
    \/ Structure
    \/ Save

SpecSeg == SegInit /\ [][SegNext]_vars

-----------------------------------------------------------------------------
(* The pipeline on recordings of one-segment paragraphs whose structuring   *)
(* call returns a reply of one or two lines put together from index         *)
(* fields, separators and titles, well-formed and malformed.                *)

\* longest segment sequence of these recordings
ParseSegs == 3

\* index fields: in range, zero, out of range, not a number, missing, with
\* the label in front, with blanks around, negative
ParseIdx ==
    { <<"2">>, <<"0">>, <<"9">>, <<"x">>, << >>, <<DUAN, LUO, "2">>,
      <<" ", "1", " ">>, <<"-", "1">> }

\* separators: the ASCII colon, the full-width colon, none
ParseSeps == { <<":">>, <<FWCOLON>>, << >> }

\* titles: plain, missing, blank, with an ASCII colon, with a full-width
\* colon, with blanks around
ParseTitles ==
    { <<"I">>, << >>, <<" ">>, <<"I", ":", "J">>, <<"I", FWCOLON, "J">>,
      <<" ", "I", " ">> }

ParseLines == { i \o sp \o t : i \in ParseIdx, sp \in ParseSeps, t \in ParseTitles }

\* replies of one line, and of one line before or after the line "1:K"
ParseReplies ==
    { <<l>> : l \in ParseLines }
        \cup { <<l, <<"1", ":", "K">> >> : l \in ParseLines }
        \cup { << <<"1", ":", "K">>, l>> : l \in ParseLines }

ParseInit ==
    InitAll(SourcesOf({TextA}, {1}, ParseSegs), {FALSE}, {"ok"},
            {[ok |-> TRUE, lines |-> r] : r \in ParseReplies})

SpecParse == ParseInit /\ [][SegNext]_vars

-----------------------------------------------------------------------------
(* Properties of the pipeline. *)

\* the formatted text paragraph i (0-based) must end with, from the result
\* of its own formatting job and of its own retry call alone
OwnResult(i) ==
    IF futures[i + 1].outcome # "fail"
    THEN <<ReplyText(futures[i + 1].outcome, paragraphs[i + 1].raw, "F")>>
    ELSE IF i \in DOMAIN retryCalls /\ retryCalls[i] # << >> /\ retryCalls[i][1] # "fail"
         THEN <<ReplyText(retryCalls[i][1], paragraphs[i + 1].raw, "R")>>
         ELSE << >>

\* what paragraph i (0-based) contributes to a document, given its formatted
\* text: its heading line, a blank line, and its text
Section(i, formatted) ==
    (IF i \in DOMAIN chapter_headers
        THEN <<Piece("#", 2), Piece(" ", 1)>> \o chapter_headers[i] \o NL2
        ELSE << >>)
    \o (IF formatted # << >> /\ formatted[1] # << >> THEN formatted[1]
        ELSE paragraphs[i + 1].raw)

\* the document that lists the paragraphs by ascending index, each with the
\* result of its own job
IndexOrderDocument ==
    <<Piece("#", 1), Piece(" ", 1)>> \o title \o NL2
    \o Join([k \in 1..Len(paragraphs) |-> Section(k - 1, OwnResult(k - 1))], NL2)
    \o NL1

\* C1: order invariance.  Whatever the order in which the formatting jobs
\* complete and are observed, the document written at the end is the one
\* that lists the paragraphs by ascending index, each rendered from the
\* result of its own job: it depends on the results, not on their order.
C1_OrderInvariance ==
    pc = "done" => storage = <<IndexOrderDocument>>

\* a finished run in which a later paragraph's completion was observed
\* before an earlier one's, with different results
C1_OutOfOrderRun ==
    /\ pc = "done"
    /\ \E a, b \in 1..Len(observed) :
         /\ a < b
         /\ observed[a] > observed[b]
         /\ futures[observed[a] + 1].outcome = "ok"
         /\ futures[observed[b] + 1].outcome = "fail"

\* every paragraph-formatting call of the run failed: each job of the main
\* pass and each retry call
AllFormattingFailed ==
    /\ \A i \in 1..Len(futures) : futures[i].outcome = "fail"
    /\ \A i \in DOMAIN retryCalls : retryCalls[i] = <<"fail">>

\* the title heading followed by the raw paragraph texts in index order
RawDocument ==
    <<Piece("#", 1), Piece(" ", 1)>> \o title \o NL2
    \o Join([k \in 1..Len(paragraphs) |-> paragraphs[k].raw], NL2)
    \o NL1

\* the same with each chapter heading before its paragraph
RawDocumentWithHeadings ==
    <<Piece("#", 1), Piece(" ", 1)>> \o title \o NL2
    \o Join([k \in 1..Len(paragraphs) |-> Section(k - 1, << >>)], NL2)
    \o NL1

\* C2 as stated: if every paragraph-formatting call fails, the final
\* document is the title heading and the raw paragraph texts in index order
\* and nothing else.
C2_DegradationAsStated ==
    (pc = "done" /\ AllFormattingFailed) => storage = <<RawDocument>>

\* C2 amended: if every paragraph-formatting call fails, the final document
\* is the title heading and the raw paragraph texts in index order, each
\* once, with nothing but the chapter headings of the structure analysis
\* inserted before their paragraphs; without chapter headings it is exactly
\* the title heading and the raw texts.
C2_Degradation ==
    (pc = "done" /\ AllFormattingFailed) =>
        /\ storage = <<RawDocumentWithHeadings>>
        /\ (DOMAIN chapter_headers = {} => storage = <<RawDocument>>)

\* a finished run of three paragraphs whose formatting calls all failed
C2_AllFailedRun ==
    /\ pc = "done"
    /\ AllFormattingFailed
    /\ Len(paragraphs) = 3
    /\ DOMAIN retryCalls = {0, 1, 2}

\* C3: no outcome of the formatting calls moves the pipeline to failed.
\* transcribe_and_format is left by an exception only when the speech source
\* raised, and then the exception is the source's.
C3_OnlySourceFails ==
    (pc = "failed" \/ raised # "none") =>
        /\ pc = "failed"
        /\ raised = "FatalSourceError"
        /\ sourceFails
        /\ pos = Len(source)

\* a run that reached done although one paragraph failed in the main pass
\* and again in the retry pass while another one was formatted
C3_FailuresAbsorbed ==
    /\ pc = "done"
    /\ raised = "none"
    /\ \E i \in DOMAIN retryCalls : futures[i + 1].outcome = "fail" /\ retryCalls[i] = <<"fail">>
    /\ \E i \in DOMAIN retryCalls : futures[i + 1].outcome = "ok"

\* C4: liveness.  If the speech source yields its segments without raising
\* and every remote call returns or fails, the pipeline reaches done and has
\* written a document, whatever the remote calls end in.
C4_EventuallyDone ==
    (~sourceFails) ~> (pc = "done" /\ Len(storage) = 1)

\* a finished run in which every formatting call and the structuring call
\* failed
C4_DoneAfterAllFailed ==
    /\ pc = "done"
    /\ Len(storage) = 1
    /\ Len(paragraphs) >= MIN_STRUCTURE_PARAGRAPHS
    /\ AllFormattingFailed
    /\ structCalls = <<[ok |-> FALSE, lines |-> << >>]>>

\* the jobs waiting in the executor's queue
Queued == {workQueue[k] : k \in 1..Len(workQueue)}

\* C5: bounded concurrency.  At most MAX_WORKERS = 5 formatting calls are
\* executing at any time, however many paragraphs were submitted; a job that
\* is neither running nor done waits in the executor's queue.
C5_BoundedConcurrency ==
    /\ Cardinality(Running) <= MAX_WORKERS
    /\ \A i \in 1..Len(futures) : futures[i].state = "queued" <=> (i - 1) \in Queued

\* all five workers are busy and a sixth paragraph waits in the queue
C5_AllBusyOneQueued ==
    /\ Cardinality(Running) = MAX_WORKERS
    /\ Len(futures) > MAX_WORKERS
    /\ workQueue # << >>

\* C6: the producer never blocks on formatting.  During the segmenting stage
\* the next step of the main loop is possible in every state of the workers,
\* and every result applied so far is that of a job that was done: the poll
\* never takes an unfinished job.
C6_ProducerNeverBlocks ==
    /\ (pc = "loop" /\ pos < Len(source)) => ENABLED NextSegment
    /\ pc = "check" => ENABLED AppendSegment
    /\ pc \in {"loop", "check", "final_check"} =>
          \A k \in 1..Len(observed) : futures[observed[k] + 1].state = "done"

\* the main loop is about to append a segment while all five workers are
\* busy, a job waits in the queue and none of the pending jobs is done
C6_AllBusyWhileSegmenting ==
    /\ pc = "check"
    /\ Cardinality(Running) = MAX_WORKERS
    /\ workQueue # << >>
    /\ \A idx \in pending_futures : futures[idx + 1].state # "done"
    /\ ENABLED AppendSegment

-----------------------------------------------------------------------------
(* Properties of the segmenter.  They are stated over the source sequence   *)
(* and the paragraphs, not over the loop's own bookkeeping.                 *)

\* the stripped text of source segment i
Spoken(i) == Strip(source[i].text)

\* how many segments have been appended or skipped: the segment in hand at
\* "check" has been taken from the source but is not yet appended
Appended == IF pc = "check" THEN pos - 1 ELSE pos

\* the source indices, in order, of the first k segments that are not blank
SpokenIdx(k) == SortedKeys({i \in 1..k : Spoken(i) # << >>})

\* the raw texts of the paragraphs in index order, followed by the unflushed tail
Chunks ==
    [i \in 1..Len(paragraphs) |-> paragraphs[i].raw]
        \o (IF current_parts # << >> THEN <<Join(current_parts, << >>)>> ELSE << >>)

\* the groups a set of cuts divides the positions 1..m into; a cut j lies
\* between position j and position j + 1
GroupsOf(cuts, m) ==
    IF m = 0 THEN << >>
    ELSE LET ends == SortedKeys(cuts \cup {m})
         IN  [g \in 1..Len(ends) |-> [lo |-> IF g = 1 THEN 1 ELSE ends[g - 1] + 1,
                                      hi |-> ends[g]]]

\* the texts of the non-blank segments at positions lo..hi of sp, concatenated
ChunkOf(sp, lo, hi) ==
    Join([k \in 1..(hi - lo + 1) |-> Spoken(sp[lo + k - 1])], << >>)

\* the paragraphs and the tail are the groups of the cuts, every segment whole
Matches(cuts, sp) ==
    LET gs == GroupsOf(cuts, Len(sp))
    IN  /\ Len(gs) = Len(Chunks)
        /\ \A g \in 1..Len(gs) : Chunks[g] = ChunkOf(sp, gs[g].lo, gs[g].hi)

\* the end of the last non-blank segment among the first k, 0.0 if none
LastSpokenEnd(k) ==
    LET sp == SpokenIdx(k) IN IF sp = << >> THEN 0 ELSE source[sp[Len(sp)]].end

\* the end of segment k, the segment that immediately precedes segment k + 1
LastEnd(k) == IF k = 0 THEN 0 ELSE source[k].end

\* the step of the main loop that takes the next segment from the source
TakesSegment == pc = "loop" /\ pos' = pos + 1

\* the step of the main loop that appends the segment in hand
AppendsSegment == pc = "check" /\ pc' = "loop"

\* the accumulator is flushed as a new paragraph, without the new segment
Flushed ==
    /\ paragraphs' = Append(paragraphs, [raw |-> Join(current_parts, << >>),
                                         formatted |-> << >>])
    /\ current_parts' = << >>

\* C7 as stated: a boundary is placed immediately before an incoming segment
\* if and only if the accumulator is non-empty and the segment starts
\* gapThreshold or more after the end of the segment before it, or the
\* accumulated length is maxParagraphChars or more.
C7_RuleAsStated ==
    [][TakesSegment =>
         LET seg == source[pos + 1]
         IN  (Len(paragraphs') = Len(paragraphs) + 1) <=>
                 (/\ current_parts # << >>
                  /\ \/ seg.start - LastEnd(pos) >= GAP_THRESHOLD
                     \/ SumLen(current_parts) >= MAX_PARAGRAPH_CHARS)]_vars

\* C7 (amended): a boundary is placed immediately before an incoming segment
\* if and only if the segment is not blank, the accumulator is non-empty and
\* the segment starts GAP_THRESHOLD or more after the end of the last
\* non-blank segment or the accumulated length is MAX_PARAGRAPH_CHARS or
\* more; the flush takes the accumulator without the new segment, whose
\* stripped text is appended afterwards.
C7_SegmenterRule ==
    [][/\ TakesSegment =>
            LET seg == source[pos + 1]
                cut == /\ Spoken(pos + 1) # << >>
                       /\ current_parts # << >>
                       /\ \/ seg.start - LastSpokenEnd(pos) >= GAP_THRESHOLD
                          \/ SumLen(current_parts) >= MAX_PARAGRAPH_CHARS
            IN  IF cut THEN Flushed
                ELSE paragraphs' = paragraphs /\ current_parts' = current_parts
       /\ AppendsSegment =>
            /\ current_parts' = Append(current_parts, Spoken(pos))
            /\ Len(paragraphs') = Len(paragraphs)]_vars

\* a paragraph has just been cut for its length alone: the segment in hand
\* follows the last one without a pause
C7_CutForLength ==
    /\ pc = "check"
    /\ current_parts = << >>
    /\ Len(paragraphs) >= 1
    /\ segment[1].start - prev_end < GAP_THRESHOLD

\* the pause before the non-blank segment at position j of sp, measured from
\* the end of the non-blank segment before it
SpokenGap(sp, j) == source[sp[j]].start - source[sp[j - 1]].end

\* the pause before the non-blank segment at position j of sp, measured from
\* the end of the source segment before it
SourceGap(sp, j) == source[sp[j]].start - source[sp[j] - 1].end

RECURSIVE LenOver(_, _, _)
\* the summed length of the non-blank segments at positions lo..hi of sp
LenOver(sp, lo, hi) ==
    IF lo > hi THEN 0 ELSE TextLen(Spoken(sp[lo])) + LenOver(sp, lo + 1, hi)

\* the length of the run that ends with position j: from the last cut before j
RunLen(cuts, sp, j) ==
    LET before == {c \in cuts : c < j}
        lo     == IF before = {} THEN 1
                  ELSE (CHOOSE c \in before : \A d \in before : d <= c) + 1
    IN  LenOver(sp, lo, j)

\* C8 as stated: a run without a gap whose length stays under
\* maxParagraphChars is never split, and a gap-free run is split exactly
\* where its cumulative length first exceeds maxParagraphChars; the gaps are
\* those between consecutive segments of the source.
C8_PlacementAsStated ==
    pc # "failed" =>
        LET sp == SpokenIdx(Appended)
        IN  \E cuts \in SUBSET (1..(Len(sp) - 1)) :
                /\ Matches(cuts, sp)
                /\ \A j \in 1..(Len(sp) - 1) :
                       j \in cuts <=> \/ SourceGap(sp, j + 1) >= GAP_THRESHOLD
                                      \/ RunLen(cuts, sp, j) > MAX_PARAGRAPH_CHARS

\* C8 (amended): the paragraphs are runs of whole non-blank segments; a run
\* in which no segment starts GAP_THRESHOLD or more after the end of the
\* non-blank segment before it and whose length stays under
\* MAX_PARAGRAPH_CHARS is never split, and a run is split right after the
\* first segment with which its length reaches or exceeds MAX_PARAGRAPH_CHARS.
C8_BoundaryPlacement ==
    pc # "failed" =>
        LET sp == SpokenIdx(Appended)
        IN  \E cuts \in SUBSET (1..(Len(sp) - 1)) :
                /\ Matches(cuts, sp)
                /\ \A j \in 1..(Len(sp) - 1) :
                       j \in cuts <=> \/ SpokenGap(sp, j + 1) >= GAP_THRESHOLD
                                      \/ RunLen(cuts, sp, j) >= MAX_PARAGRAPH_CHARS

\* three segments without a pause and without a blank one were transcribed
\* and the run was split once, for its length
C8_RunSplitForLength ==
    /\ pc = "done"
    /\ Len(source) = 3
    /\ \A i \in 1..3 : Spoken(i) # << >>
    /\ \A i \in 2..3 : source[i].start = source[i - 1].end
    /\ Len(paragraphs) = 2

\* C9 as stated: the raw texts of the paragraphs followed by the tail are
\* the concatenation of the consumed segment texts, and after end-of-stream
\* the tail is empty.
C9_TextAsStated ==
    /\ pc # "failed" =>
           Join(Chunks, << >>) = Join([i \in 1..Appended |-> source[i].text], << >>)
    /\ pc \notin {"loop", "check", "failed"} => current_parts = << >>

\* C9 (amended): the raw texts of the paragraphs followed by the tail are the
\* concatenation, in arrival order, of the consumed segments' texts with
\* their leading and trailing whitespace removed, every non-blank segment
\* whole in exactly one paragraph or in the tail; after end-of-stream the
\* tail is empty.
C9_NoTextLost ==
    /\ pc # "failed" =>
           /\ Join(Chunks, << >>) = Join([i \in 1..Appended |-> Spoken(i)], << >>)
           /\ \E cuts \in SUBSET (1..(Len(SpokenIdx(Appended)) - 1)) :
                  Matches(cuts, SpokenIdx(Appended))
    /\ pc \notin {"loop", "check", "failed"} =>
           /\ current_parts = << >>
           /\ Appended = Len(source)

\* three segments were consumed: one paragraph is closed and the tail holds
\* two segments, one of them with a blank in front of its text
C9_ParagraphAndTail ==
    /\ pc = "loop"
    /\ pos = 3
    /\ Len(paragraphs) = 1
    /\ Len(current_parts) = 2
    /\ \E i \in 1..3 : source[i].text # Spoken(i) /\ Spoken(i) # << >>

-----------------------------------------------------------------------------
(* Properties of the retry pass. *)

\* the paragraphs whose formatting job of the main pass raised
FailedInMainPass == {i \in 0..(Len(paragraphs) - 1) : futures[i + 1].outcome = "fail"}

\* C10: retry policy.  After the retry pass exactly the paragraphs whose
\* formatting job raised have had one more call, after one cooldown of
\* RETRY_COOLDOWN seconds; a call that returns sets formatted, one that
\* raises leaves it absent and the paragraph renders from raw; the other
\* paragraphs keep the result of their job; without a failed paragraph there
\* is no cooldown and no call.  No retry call is made before the cooldown.
C10_RetryPolicy ==
    /\ pc \in {"structure", "save", "done"} =>
         /\ slept = IF FailedInMainPass # {} THEN RETRY_COOLDOWN ELSE 0
         /\ \A i \in 0..(Len(paragraphs) - 1) :
              LET p == paragraphs[i + 1]
              IN  IF i \in FailedInMainPass
                  THEN /\ Len(retryCalls[i]) = 1
                       /\ IF retryCalls[i][1] = "fail"
                          THEN p.formatted = << >> /\ Rendered(p) = p.raw
                          ELSE p.formatted = <<ReplyText(retryCalls[i][1], p.raw, "R")>>
                  ELSE /\ retryCalls[i] = << >>
                       /\ p.formatted = <<ReplyText(futures[i + 1].outcome, p.raw, "F")>>
    /\ pc = "retry" =>
         /\ slept = IF failed_indices # << >> THEN RETRY_COOLDOWN ELSE 0
         /\ \A i \in 0..(Len(paragraphs) - 1) : Len(retryCalls[i]) <= 1
    /\ pc \in {"loop", "check", "final_check", "drain"} => slept = 0 /\ retryCalls = << >>

\* a run is over in which one paragraph was formatted by its job, one by its
\* retry call, and one failed both times
C10_RetriedBothWays ==
    /\ pc = "done"
    /\ \E i, j, k \in 0..(Len(paragraphs) - 1) :
         /\ retryCalls[i] = << >>
         /\ retryCalls[j] = <<"ok">>
         /\ retryCalls[k] = <<"fail">>

-----------------------------------------------------------------------------
(* Properties of the executor's jobs and of the structure analysis. *)

\* how often index i (0-based) occurs among the observed completions
TimesObserved(i) == Cardinality({k \in 1..Len(observed) : observed[k] = i})

\* C11: failure isolation.  A job that fails affects its own paragraph only:
\* no job is ever cancelled, so every submitted job is queued, running or
\* done, also after a sibling failed; the failure leaves the pipeline
\* running; and once the drain is over every job has run to completion,
\* has been observed once, and every job that returned has its own result
\* at its own index.
C11_FailureIsolation ==
    /\ \A i \in 1..Len(futures) :
         /\ futures[i].state \in {"queued", "running", "done"}
         /\ futures[i].state = "queued" => (i - 1) \in Queued
    /\ (\E i \in 1..Len(futures) : futures[i].outcome = "fail") =>
         (sourceFails \/ pc # "failed")
    /\ pc \in {"retry", "structure", "save", "done"} =>
         /\ Len(futures) = Len(paragraphs)
         /\ \A i \in 1..Len(futures) :
              /\ futures[i].state = "done"
              /\ TimesObserved(i - 1) = 1
              /\ futures[i].outcome # "fail" =>
                   paragraphs[i].formatted =
                       <<ReplyText(futures[i].outcome, paragraphs[i].raw, "F")>>

\* a finished run of three paragraphs whose first job failed, observed
\* before the two later jobs, which both returned
C11_SiblingsOfFailedJob ==
    /\ pc = "done"
    /\ Len(futures) = 3
    /\ futures[1].outcome = "fail"
    /\ futures[2].outcome = "ok"
    /\ futures[3].outcome = "ok"
    /\ observed[1] = 0

\* C12: structure gating.  The structuring call is made at most once per
\* run, never before the structure stage, and once that stage is over it
\* has been made if and only if there are at least 3 paragraphs.
C12_StructureGating ==
    /\ Len(structCalls) <= 1
    /\ pc \notin {"save", "done"} => structCalls = << >>
    /\ pc \in {"save", "done"} => (Len(structCalls) = 1 <=> Len(paragraphs) >= 3)

\* a run with exactly three paragraphs is over and made its one call
C12_ThreeParagraphsDone ==
    /\ pc = "done"
    /\ Len(paragraphs) = 3
    /\ Len(structCalls) = 1

-----------------------------------------------------------------------------
(* Properties of the reply parser, stated over the reply's lines as read by *)
(* their first separator of either kind.                                    *)

\* the reply of the run's structuring call
ReplyLines == structCalls[1].lines

\* whether line l holds a separator
HasSep(l) == \E k \in 1..Len(l) : l[k] \in {":", FWCOLON}

\* the position of the first separator of either kind in line l
FirstSep(l) ==
    CHOOSE k \in 1..Len(l) :
        l[k] \in {":", FWCOLON} /\ \A j \in 1..(k - 1) : l[j] \notin {":", FWCOLON}

RECURSIVE Trimmed(_)
\* line l without the blanks around it
Trimmed(l) ==
    IF l = << >> THEN l
    ELSE IF Head(l) = " " THEN Trimmed(Tail(l))
    ELSE IF l[Len(l)] = " " THEN Trimmed(SubSeq(l, 1, Len(l) - 1))
    ELSE l

\* the index field of line l: what stands before the first separator,
\* without blanks and without the label of the wire format in front
IndexField(l) ==
    LET f == Trimmed(SubSeq(l, 1, FirstSep(l) - 1))
    IN  IF Len(f) >= 2 /\ f[1] = DUAN /\ f[2] = LUO THEN Trimmed(SubSeq(f, 3, Len(f))) ELSE f

\* the title field of line l: what stands after the first separator
TitleField(l) == Trimmed(SubSeq(l, FirstSep(l) + 1, Len(l)))

\* whether field f is a decimal number
IsNumber(f) == f # << >> /\ \A k \in 1..Len(f) : f[k] \in Digits

RECURSIVE NumberOf(_)
\* the number a decimal field denotes
NumberOf(f) == IF f = << >> THEN 0 ELSE 10 * NumberOf(SubSeq(f, 1, Len(f) - 1)) + DigitVal(f[Len(f)])

\* a line is well-formed for n paragraphs: a separator, an index in 1..n
\* before it and a non-empty title after it
WellFormed(l, n) ==
    /\ HasSep(l)
    /\ IsNumber(IndexField(l))
    /\ NumberOf(IndexField(l)) \in 1..n
    /\ TitleField(l) # << >>

\* reply r without its line k
WithoutLine(r, k) == SubSeq(r, 1, k - 1) \o SubSeq(r, k + 1, Len(r))

\* C13: malformed lines are dropped one by one.  A line without separator,
\* with an index that is no number or lies outside 1..paragraphCount, or
\* with an empty title adds no heading and changes nothing about the
\* headings of the other lines: the headings are those of the reply without
\* that line.  Every key of chapter_headers lies in 0..paragraphCount-1 and
\* every title is non-empty.
C13_MalformedLinesDropped ==
    /\ \A i \in DOMAIN chapter_headers :
         i \in 0..(Len(paragraphs) - 1) /\ chapter_headers[i] # << >>
    /\ (pc \in {"save", "done"} /\ structCalls # << >>) =>
         \A k \in 1..Len(ReplyLines) :
            ~WellFormed(Trimmed(ReplyLines[k]), Len(paragraphs)) =>
               /\ chapter_headers =
                     ParseHeaders(WithoutLine(ReplyLines, k), Len(paragraphs), << >>)
               /\ (Len(ReplyLines) = 1 => DOMAIN chapter_headers = {})

\* a finished run whose reply was a line with an index out of range before
\* the line "1:K", which gave the only heading
C13_MalformedNextToValid ==
    /\ pc = "done"
    /\ structCalls # << >>
    /\ ReplyLines = << <<"9", ":", "I">>, <<"1", ":", "K">> >>
    /\ DOMAIN chapter_headers = {0}
    /\ chapter_headers[0] = CharsText(<<"K">>)

\* line k of the reply is the last well-formed line with its index
LastWithIndex(k) ==
    \A j \in (k + 1)..Len(ReplyLines) :
        WellFormed(Trimmed(ReplyLines[j]), Len(paragraphs)) =>
            NumberOf(IndexField(Trimmed(ReplyLines[j])))
                # NumberOf(IndexField(Trimmed(ReplyLines[k])))

\* C14: both separators are accepted.  Every reply line <n><sep><title>
\* with an ASCII or a full-width colon for <sep>, n in 1..paragraphCount and
\* a title that is non-empty after trimming gives the entry
\* chapter_headers[n-1] = title, whatever characters the title contains (of
\* two lines with the same n the later one stays).
C14_BothSeparators ==
    (pc \in {"save", "done"} /\ structCalls # << >>) =>
        \A k \in 1..Len(ReplyLines) :
            LET l == Trimmed(ReplyLines[k])
            IN  (WellFormed(l, Len(paragraphs)) /\ LastWithIndex(k)) =>
                    /\ (NumberOf(IndexField(l)) - 1) \in DOMAIN chapter_headers
                    /\ chapter_headers[NumberOf(IndexField(l)) - 1] = CharsText(TitleField(l))

-----------------------------------------------------------------------------
(* Properties of the end of the pipeline. *)

\* the structuring call of the run raised, or no line of its reply is
\* well-formed
StructureGaveNothing ==
    /\ structCalls # << >>
    /\ \/ ~structCalls[1].ok
       \/ \A k \in 1..Len(ReplyLines) :
              ~WellFormed(Trimmed(ReplyLines[k]), Len(paragraphs))

\* the title heading and the paragraphs' texts, formatted where a formatted
\* text is there, without any heading
DocumentWithoutHeadings ==
    <<Piece("#", 1), Piece(" ", 1)>> \o title \o NL2
    \o Join([k \in 1..Len(paragraphs) |->
                IF paragraphs[k].formatted # << >> /\ paragraphs[k].formatted[1] # << >>
                THEN paragraphs[k].formatted[1] ELSE paragraphs[k].raw], NL2)
    \o NL1

\* C15: a failure of the structure analysis is absorbed.  If the call
\* raised or its reply has no valid line, chapter_headers stays empty, the
\* pipeline goes on to the save without an exception, and the document
\* written is the paragraphs' texts without headings.
C15_StructureFailureAbsorbed ==
    StructureGaveNothing =>
        /\ chapter_headers = << >>
        /\ pc \in {"save", "done"}
        /\ raised = "none"
        /\ pc = "done" => storage = <<DocumentWithoutHeadings>>

\* a finished run of three paragraphs, one of them formatted, whose
\* structuring call raised
C15_DoneAfterStructureFailure ==
    /\ pc = "done"
    /\ structCalls = <<[ok |-> FALSE, lines |-> << >>]>>
    /\ \E k \in 1..Len(paragraphs) : paragraphs[k].formatted = <<ReplyText("ok", paragraphs[k].raw, "F")>>
    /\ Len(storage) = 1

\* C16: fatal source error.  When the speech source raises, the exception
\* leaves transcribe_and_format from the main loop: the run never gets past
\* the loop, so there is no cooldown, no retry call, no structuring call and
\* no document; and nothing of this happens afterwards.
C16_FatalSourceError ==
    /\ sourceFails =>
         /\ pc \in {"loop", "check", "failed"}
         /\ slept = 0
         /\ retryCalls = << >>
         /\ structCalls = << >>
         /\ storage = << >>
    /\ pc = "failed" => raised = "FatalSourceError" /\ pos = Len(source)
    /\ (pc = "loop" /\ pos = Len(source) /\ sourceFails) => ENABLED SourceRaises

\* the source raised after three segments, with one paragraph submitted
\* and text in the accumulator
C16_RaisedMidRecording ==
    /\ pc = "failed"
    /\ raised = "FatalSourceError"
    /\ pos = 3
    /\ Len(paragraphs) >= 1
    /\ current_parts # << >>

\* C17: storage is written once, at completion.  Before done nothing is
\* written; at done exactly one document is, and it is the assembly of the
\* final paragraphs and chapter headings, with an empty tail.
C17_WrittenOnceAtCompletion ==
    /\ pc # "done" => storage = << >>
    /\ pc = "done" =>
         /\ Len(storage) = 1
         /\ current_parts = << >>
         /\ storage[1] =
               <<Piece("#", 1), Piece(" ", 1)>> \o title \o NL2
               \o Join([k \in 1..Len(paragraphs) |-> Section(k - 1, paragraphs[k].formatted)],
                       NL2)
               \o NL1

\* a finished run whose document holds a chapter heading and a paragraph
\* formatted by its retry call
C17_FinalDocumentWritten ==
    /\ pc = "done"
    /\ Len(storage) = 1
    /\ DOMAIN chapter_headers # {}
    /\ \E i \in DOMAIN retryCalls : retryCalls[i] = <<"ok">>

-----------------------------------------------------------------------------
(* Properties of the progress callback. *)

\* the document assembled from the state: title, paragraphs with their
\* headings, and the text being transcribed
Assembly ==
    <<Piece("#", 1), Piece(" ", 1)>> \o title \o NL2
    \o Join([k \in 1..Len(paragraphs) |-> Section(k - 1, paragraphs[k].formatted)]
                \o (IF current_parts # << >> THEN <<Join(current_parts, << >>)>> ELSE << >>),
            NL2)

\* on_update is called once in this step, with the state the step leaves
CalledWithState ==
    /\ updates' = updates + 1
    /\ onUpdate' = <<[content |-> Assembly',
                      formatted_count |-> formatted_count',
                      total_paragraphs |-> Len(paragraphs')]>>

\* C18 as stated: every segment consumed has had its callback before the
\* next one is taken, and every completion observed is followed by its
\* callback before a further completion is processed, with the state at
\* that moment.
C18_ProgressAsStated ==
    [][/\ TakesSegment => updates >= pos
       /\ observed' # observed => (Len(observed') = Len(observed) + 1 /\ CalledWithState)
       /\ AppendsSegment => CalledWithState]_vars

\* C18 (amended): after every non-blank segment, once it is appended, and
\* after every poll of the main loop, final poll or drain step that
\* observed completions, on_update is called before a further segment is
\* taken or a further poll is made, with the document assembled from the
\* state at that moment, formatted_count and the paragraph count; the
\* completions one poll observes share one call, and a blank segment is
\* skipped without a call.
C18_ProgressReporting ==
    [][/\ AppendsSegment => CalledWithState
       /\ observed' # observed => CalledWithState
       /\ (TakesSegment /\ Spoken(pos + 1) = << >>) => updates' = updates
       /\ updates' # updates => CalledWithState]_vars

\* three segments were taken, one of them blank: two calls for them
\* and a completion observed on the way
C18_BlankSegmentSkipped ==
    /\ pc = "loop"
    /\ pos = 3
    /\ \E i \in 1..3 : Spoken(i) = << >>
    /\ updates = 2
    /\ Len(observed) >= 1

\* the paragraphs that have a formatted text
WithFormattedText == {k \in 1..Len(paragraphs) : paragraphs[k].formatted # << >>}

\* C19: the formatted_count handed to on_update is the number of paragraphs
\* whose formatting is completed: at every call it equals the number of
\* paragraphs that have a formatted text.
C19_CountIsFormattedParagraphs ==
    [][updates' # updates =>
          onUpdate'[1].formatted_count = Cardinality(WithFormattedText')]_vars


-----------------------------------------------------------------------------
(* The server's task queue (src/server.py).  A task is known by its place   *)
(* in the dict tasks, which keeps insertion order.  Every request runs in   *)
(* its own HTTP thread and every started task in its own _run_task thread;  *)
(* a thread's steps are the statements that read or write the shared state. *)
(* The download and the pipeline inside _run_task are calls that return or  *)
(* raise.                                                                   *)

\* thread t leaves the with block of _process_next: the lock is let go of and
\* the thread's iterator is gone
Release(t) ==
    /\ _queue_lock' = << >>
    /\ cursor' = [cursor EXCEPT ![t] = NoCursor]

\* where a thread stands once _process_next has returned to it
Returned(t) == IF t[1] = "http" THEN "responded" ELSE "ended"

\* _create_task: the dict insert, made without the lock; _process_next follows
CreateTask(i) ==
    /\ i = Len(tasks) + 1
    /\ i <= MaxTasks
    /\ tpc[<<"http", i>>] = "none"
    /\ tasks' = Append(tasks, [status |-> "queued", formatting |-> << >>])
    /\ tpc' = [tpc EXCEPT ![<<"http", i>>] = "lock"]
    /\ UNCHANGED <<pipelineVars, unitVars, _processing, _queue_lock, cursor, starts>>

\* _process_next: with _queue_lock
Acquire(t) ==
    /\ tpc[t] = "lock"
    /\ _queue_lock = << >>
    /\ _queue_lock' = <<t>>
    /\ tpc' = [tpc EXCEPT ![t] = "check"]
    /\ UNCHANGED <<pipelineVars, unitVars, tasks, _processing, cursor, starts>>

\* the guard of _process_next as another definition: the flag is not looked at
CheckProcessingUnguarded(t) ==
    /\ tpc[t] = "check"
    /\ tpc' = [tpc EXCEPT ![t] = "iter"]
    /\ cursor' = [cursor EXCEPT ![t] = [at |-> 0, size |-> Len(tasks)]]
    /\ UNCHANGED _queue_lock
    /\ UNCHANGED <<pipelineVars, unitVars, tasks, _processing, starts>>

\* _process_next: if _processing: return; else the iteration over tasks begins
CheckProcessing(t) ==
    /\ tpc[t] = "check"
    /\ IF _processing
       THEN /\ tpc' = [tpc EXCEPT ![t] = Returned(t)]
            /\ Release(t)
       ELSE /\ tpc' = [tpc EXCEPT ![t] = "iter"]
            /\ cursor' = [cursor EXCEPT ![t] = [at |-> 0, size |-> Len(tasks)]]
            /\ UNCHANGED _queue_lock
    /\ UNCHANGED <<pipelineVars, unitVars, tasks, _processing, starts>>

\* _process_next: one step of for task_id, task in tasks.items() with its test;
\* the dict iterator raises RuntimeError when the dict has changed size
IterateTasks(t) ==
    /\ tpc[t] = "iter"
    /\ IF Len(tasks) # cursor[t].size
       THEN /\ tpc' = [tpc EXCEPT ![t] = "raised"]
            /\ Release(t)
       ELSE IF cursor[t].at = cursor[t].size
       THEN /\ tpc' = [tpc EXCEPT ![t] = Returned(t)]
            /\ Release(t)
       ELSE /\ cursor' = [cursor EXCEPT ![t].at = @ + 1]
            /\ tpc' = [tpc EXCEPT ![t] =
                          IF tasks[cursor[t].at + 1].status = "queued"
                          THEN "start" ELSE "iter"]
            /\ UNCHANGED _queue_lock
    /\ UNCHANGED <<pipelineVars, unitVars, tasks, _processing, starts>>

\* _process_next: _processing = True, the thread is started, return
StartThread(t) ==
    /\ tpc[t] = "start"
    /\ _processing' = TRUE
    /\ tpc' = [tpc EXCEPT ![t] = Returned(t),
                          ![<<"run", cursor[t].at>>] = "begin"]
    /\ starts' = [starts EXCEPT ![cursor[t].at] = @ + 1]
    /\ Release(t)
    /\ UNCHANGED <<pipelineVars, unitVars, tasks>>

\* _run_task: status = "downloading", then download_audio is called
RunDownloading(i) ==
    /\ tpc[<<"run", i>>] = "begin"
    /\ tasks' = [tasks EXCEPT ![i].status = "downloading"]
    /\ tpc' = [tpc EXCEPT ![<<"run", i>>] = "download"]
    /\ UNCHANGED <<pipelineVars, unitVars, _processing, _queue_lock, cursor, starts>>

\* _run_task: download_audio returned; status = "transcribing"
RunTranscribing(i) ==
    /\ tpc[<<"run", i>>] = "download"
    /\ tasks' = [tasks EXCEPT ![i].status = "transcribing"]
    /\ tpc' = [tpc EXCEPT ![<<"run", i>>] = "formatting"]
    /\ UNCHANGED <<pipelineVars, unitVars, _processing, _queue_lock, cursor, starts>>

\* _run_task: formatting = "in_progress", then transcribe_and_format is called
RunFormatting(i) ==
    /\ tpc[<<"run", i>>] = "formatting"
    /\ tasks' = [tasks EXCEPT ![i].formatting = <<"in_progress">>]
    /\ tpc' = [tpc EXCEPT ![<<"run", i>>] = "transcribe"]
    /\ UNCHANGED <<pipelineVars, unitVars, _processing, _queue_lock, cursor, starts>>

\* _run_task: transcribe_and_format returned; status = "done"
RunDone(i) ==
    /\ tpc[<<"run", i>>] = "transcribe"
    /\ tasks' = [tasks EXCEPT ![i].status = "done"]
    /\ tpc' = [tpc EXCEPT ![<<"run", i>>] = "formatted"]
    /\ UNCHANGED <<pipelineVars, unitVars, _processing, _queue_lock, cursor, starts>>

\* _run_task: formatting = "done", the try block ends
RunFormatted(i) ==
    /\ tpc[<<"run", i>>] = "formatted"
    /\ tasks' = [tasks EXCEPT ![i].formatting = <<"done">>]
    /\ tpc' = [tpc EXCEPT ![<<"run", i>>] = "finally"]
    /\ UNCHANGED <<pipelineVars, unitVars, _processing, _queue_lock, cursor, starts>>

\* the except blocks as another definition: they are also entered after
\* status = "done" was set
RunFailedAfterDone(i) ==
    /\ tpc[<<"run", i>>] \in {"download", "transcribe", "formatted"}
    /\ tasks' = [tasks EXCEPT ![i].status = "failed"]
    /\ tpc' = [tpc EXCEPT ![<<"run", i>>] = "finally"]
    /\ UNCHANGED <<pipelineVars, unitVars, _processing, _queue_lock, cursor, starts>>

\* _run_task: download_audio or transcribe_and_format raised; the except
\* blocks set status = "failed"
RunFailed(i) ==
    /\ tpc[<<"run", i>>] \in {"download", "transcribe"}
    /\ tasks' = [tasks EXCEPT ![i].status = "failed"]
    /\ tpc' = [tpc EXCEPT ![<<"run", i>>] = "finally"]
    /\ UNCHANGED <<pipelineVars, unitVars, _processing, _queue_lock, cursor, starts>>

\* the finally block without its call of _process_next
RunFinallyWithoutNext(i) ==
    /\ tpc[<<"run", i>>] = "finally"
    /\ _processing' = FALSE
    /\ tpc' = [tpc EXCEPT ![<<"run", i>>] = "ended"]
    /\ UNCHANGED <<pipelineVars, unitVars, tasks, _queue_lock, cursor, starts>>

\* _run_task: finally: _processing = False, without the lock; _process_next follows
RunFinally(i) ==
    /\ tpc[<<"run", i>>] = "finally"
    /\ _processing' = FALSE
    /\ tpc' = [tpc EXCEPT ![<<"run", i>>] = "lock"]
    /\ UNCHANGED <<pipelineVars, unitVars, tasks, _queue_lock, cursor, starts>>

\* the server with no pipeline state of its own
ServerOnlyInit == InitWith({<< >>}, {FALSE}, {"ok"})

ServerNext ==
    \/ \E i \in 1..MaxTasks : CreateTask(i)
    \/ \E t \in Threads : Acquire(t)
    \/ \E t \in Threads : CheckProcessing(t)
    \/ \E t \in Threads : IterateTasks(t)
    \/ \E t \in Threads : StartThread(t)
    \/ \E i \in 1..MaxTasks : RunDownloading(i)
    \/ \E i \in 1..MaxTasks : RunTranscribing(i)
    \/ \E i \in 1..MaxTasks : RunFormatting(i)
    \/ \E i \in 1..MaxTasks : RunDone(i)
    \/ \E i \in 1..MaxTasks : RunFormatted(i)
    \/ \E i \in 1..MaxTasks : RunFailed(i)
    \/ \E i \in 1..MaxTasks : RunFinally(i)

SpecServer == ServerOnlyInit /\ [][ServerNext]_vars

-----------------------------------------------------------------------------
(* _split_text (src/transcriber.py:80-111), called on its own.  Its text is *)
(* a plain sequence of characters, positions are 0-based as in the code:    *)
(* text[a:b] of the code is SubSeq(text, a + 1, b) here.                    *)

\* the characters that are not ASCII, by code point
JUHAO == "U+3002"
WENHAO == "U+FF1F"
TANHAO == "U+FF01"
FENHAO == "U+FF1B"

\* for sep in [...]: the sentence separators
Separators == {JUHAO, WENHAO, TANHAO, ".", "?", "!", FENHAO, "\n"}

\* the characters of the texts tried: a letter, an ASCII and a full-width separator
SplitAlphabet == {"a", ".", JUHAO}

\* text.rfind(sep, start, end): the last position of sep in text[start:end], -1 if none
RFind(text, sep, start, end) ==
    LET at == {p \in start..(end - 1) : text[p + 1] = sep}
    IN  IF at = {} THEN -1 ELSE CHOOSE p \in at : \A q \in at : q <= p

\* split_pos after the for loop: the largest rfind result, -1 if every one is -1
SplitPos(text, start, end) ==
    LET found == {RFind(text, sep, start, end) : sep \in Separators} \cup {-1}
    IN  CHOOSE p \in found : \A q \in found : q <= p

\* the cut as another definition: the window searched is one character longer
CutEndReachingOver(text, start, size) ==
    LET split_pos == SplitPos(text, start, start + size + 1)
    IN  IF split_pos > start THEN split_pos + 1 ELSE start + size

\* where the chunk that begins at start ends: split_pos + 1 if split_pos > start,
\* else end = start + chunk_size
CutEnd(text, start, size) ==
    LET split_pos == SplitPos(text, start, start + size)
    IN  IF split_pos > start THEN split_pos + 1 ELSE start + size

\* if len(text) <= chunk_size: return [text]; else the loop is entered
SplitEntry ==
    /\ split_pc = "entry"
    /\ IF Len(split_text) <= chunk_size
       THEN /\ chunks' = <<split_text>>
            /\ split_pc' = "returned"
       ELSE /\ chunks' = << >>
            /\ split_pc' = "loop"
    /\ split_start' = 0
    /\ UNCHANGED <<pipelineVars, serverVars, callVars, split_text, chunk_size>>

\* one pass of while start < len(text), and return chunks when it is left
SplitIterate ==
    /\ split_pc = "loop"
    /\ IF ~(split_start < Len(split_text))
       THEN /\ split_pc' = "returned"
            /\ UNCHANGED <<chunks, split_start>>
       ELSE IF split_start + chunk_size >= Len(split_text)
       THEN /\ chunks' = Append(chunks, SubSeq(split_text, split_start + 1, Len(split_text)))
            /\ split_pc' = "returned"
            /\ UNCHANGED split_start
       ELSE \E end \in {CutEnd(split_text, split_start, chunk_size)} :
            /\ chunks' = Append(chunks, SubSeq(split_text, split_start + 1, end))
            /\ split_start' = end
            /\ UNCHANGED split_pc
    /\ UNCHANGED <<pipelineVars, serverVars, callVars, split_text, chunk_size>>

\* the texts and chunk sizes tried
SplitInit ==
    /\ PipelineInit({<< >>}, {FALSE}, {"ok"}, StructOutcomes)
    /\ ServerInit
    /\ CallIdle
    /\ split_text \in UNION {[1..n -> SplitAlphabet] : n \in 0..MaxText}
    /\ chunk_size \in 1..MaxChunk
    /\ split_start = 0
    /\ chunks = << >>
    /\ split_pc = "entry"

SplitNext == SplitEntry \/ SplitIterate

\* a call that has begun goes on until it returns
SpecSplit == SplitInit /\ [][SplitNext]_vars /\ WF_vars(SplitNext)

-----------------------------------------------------------------------------
(* _call_llm (src/transcriber.py:125-152), called on its own: up to         *)
(* max_retries attempts of client.chat.completions.create, each of which    *)
(* returns a reply or raises an exception with a message.  A message is a   *)
(* sequence of characters.                                                  *)

max_retries == 5

\* the messages of the exceptions tried
MsgConnection == <<"C", "o", "n", "n", "e", "c", "t", "i", "o", "n", " ", "e", "r", "r", "o", "r", ".">>
MsgReadTimeout == <<"R", "e", "a", "d", " ", "T", "I", "M", "E", "O", "U", "T">>
MsgTimedOut == <<"R", "e", "q", "u", "e", "s", "t", " ", "t", "i", "m", "e", "d", " ", "o", "u", "t", ".">>
MsgRateLimit == <<"R", "a", "t", "e", " ", "l", "i", "m", "i", "t">>
ErrorMessages == {MsgConnection, MsgReadTimeout, MsgTimedOut, MsgRateLimit}

\* the contents of the replies tried: a text with a blank in front, a blank text
ReplyContents == {TextA, TextBlank}

\* str.lower() on the letters A-Z
LowerCase ==
    [A |-> "a", B |-> "b", C |-> "c", D |-> "d", E |-> "e", F |-> "f", G
     |-> "g", H |-> "h", I |-> "i", J |-> "j", K |-> "k", L |-> "l", M
     |-> "m", N |-> "n", O |-> "o", P |-> "p", Q |-> "q", R |-> "r", S
     |-> "s", T |-> "t", U |-> "u", V |-> "v", W |-> "w", X |-> "x", Y
     |-> "y", Z |-> "z"]
Lower(msg) ==
    [k \in 1..Len(msg) |-> IF msg[k] \in DOMAIN LowerCase THEN LowerCase[msg[k]] ELSE msg[k]]

\* word in msg
ContainsWord(word, msg) ==
    \E k \in 0..(Len(msg) - Len(word)) : SubSeq(msg, k + 1, k + Len(word)) = word

\* is_network: "connect" in str(e).lower() or "timeout" in str(e).lower()
IsNetwork(msg) ==
    \/ ContainsWord(<<"c", "o", "n", "n", "e", "c", "t">>, Lower(msg))
    \/ ContainsWord(<<"t", "i", "m", "e", "o", "u", "t">>, Lower(msg))

\* the wait as another definition: the same for every failure
WaitFlat(attempt, msg) == attempt * 5

\* wait = attempt * 10 if is_network else attempt * 5
Wait(attempt, msg) == IF IsNetwork(msg) THEN attempt * 10 ELSE attempt * 5

\* the call begins: for attempt in range(1, max_retries + 1)
CallBegin ==
    /\ call_pc = "idle"
    /\ call_pc' = "try"
    /\ call_attempt' = 1
    /\ UNCHANGED <<pipelineVars, serverVars, splitVars, call_result, call_errors, call_waits>>

\* an attempt succeeds: return response.choices[0].message.content.strip()
CallReturns ==
    /\ call_pc = "try"
    /\ \E content \in ReplyContents : call_result' = <<Strip(content)>>
    /\ call_pc' = "returned"
    /\ UNCHANGED <<pipelineVars, serverVars, splitVars, call_attempt, call_errors, call_waits>>

\* an attempt raises: sleep and go on if attempt < max_retries, else raise
CallFails ==
    /\ call_pc = "try"
    /\ \E msg \in ErrorMessages :
          /\ call_errors' = Append(call_errors, msg)
          /\ IF call_attempt < max_retries
             THEN /\ call_waits' = Append(call_waits, Wait(call_attempt, msg))
                  /\ call_attempt' = call_attempt + 1
                  /\ UNCHANGED call_pc
             ELSE /\ call_pc' = "raised"
                  /\ UNCHANGED <<call_waits, call_attempt>>
    /\ UNCHANGED <<pipelineVars, serverVars, splitVars, call_result>>

CallInit ==
    /\ PipelineInit({<< >>}, {FALSE}, {"ok"}, StructOutcomes)
    /\ ServerInit
    /\ SplitIdle
    /\ CallIdle

CallNext == CallBegin \/ CallReturns \/ CallFails

\* a call that has begun goes on: the service answers every attempt and
\* every sleep ends
SpecCall == CallInit /\ [][CallNext]_vars /\ WF_vars(CallNext)

-----------------------------------------------------------------------------
(* The server when every thread goes on: a thread that can take a step      *)
(* takes one in the end, a download and a transcription end, the lock is    *)
(* handed to a thread that waits for it.  Requests need not arrive.         *)

\* the steps of the threads that exist, the arrival of requests left out
ServerProgress ==
    \/ \E t \in Threads : Acquire(t)
    \/ \E t \in Threads : CheckProcessing(t)
    \/ \E t \in Threads : IterateTasks(t)
    \/ \E t \in Threads : StartThread(t)
    \/ \E i \in 1..MaxTasks : RunDownloading(i)
    \/ \E i \in 1..MaxTasks : RunTranscribing(i)
    \/ \E i \in 1..MaxTasks : RunFormatting(i)
    \/ \E i \in 1..MaxTasks : RunDone(i)
    \/ \E i \in 1..MaxTasks : RunFormatted(i)
    \/ \E i \in 1..MaxTasks : RunFailed(i)
    \/ \E i \in 1..MaxTasks : RunFinally(i)

\* at most LiveTasks requests arrive
LiveServerNext ==
    \/ \E i \in 1..LiveTasks : CreateTask(i)
    \/ ServerProgress

FairSpecServer == ServerOnlyInit /\ [][LiveServerNext]_vars /\ WF_vars(ServerProgress)

-----------------------------------------------------------------------------
(* Properties of the server's task queue. *)

\* the tasks whose _run_task is at work on them
BeingExecuted ==
    {i \in 1..Len(tasks) : /\ tasks[i].status \in {"downloading", "transcribing"}
                           /\ tpc[<<"run", i>>] \notin {"none", "ended", "raised"}}

\* C20: under every interleaving of task creations and task completions at
\* most one task is being executed (status downloading or transcribing) at
\* any time, and no task is started more than once.
C20_SerialExecution ==
    /\ Cardinality(BeingExecuted) <= 1
    /\ Cardinality({i \in 1..Len(tasks) :
                       tasks[i].status \in {"downloading", "transcribing"}}) <= 1
    /\ \A i \in 1..MaxTasks : starts[i] <= 1

\* C20, its case: a task is being transcribed, another one waits in the
\* queue, and a thread inside _process_next is looking at the flag
C20_BusyWhileAnotherArrives ==
    /\ \E i \in BeingExecuted : tasks[i].status = "transcribing"
    /\ \E j \in 1..Len(tasks) : tasks[j].status = "queued" /\ starts[j] = 0
    /\ \E t \in Threads : tpc[t] = "check" /\ _processing


\* the moves of a task's status the lifecycle allows
StatusMoves ==
    { <<"queued", "downloading">>, <<"downloading", "transcribing">>,
      <<"transcribing", "done">>, <<"downloading", "failed">>,
      <<"transcribing", "failed">> }

\* C21: a task's status only moves forward along queued -> downloading ->
\* transcribing -> done, may instead end in failed from downloading or
\* transcribing, and never changes once it is done or failed; a task is
\* created queued.
C21_StatusLifecycle ==
    [][/\ \A i \in 1..Len(tasks) :
             /\ Len(tasks') >= i
             /\ tasks'[i].status # tasks[i].status =>
                    <<tasks[i].status, tasks'[i].status>> \in StatusMoves
       /\ \A i \in (Len(tasks) + 1)..Len(tasks') : tasks'[i].status = "queued"]_vars

\* C21, its case: one task went all the way to done, one failed while
\* downloading and one failed while transcribing, each thread at its end
C21_EveryEndReached ==
    /\ \E i \in 1..Len(tasks) : tasks[i].status = "done" /\ tpc[<<"run", i>>] = "ended"
    /\ \E i \in 1..Len(tasks) :
          /\ tasks[i].status = "failed"
          /\ tasks[i].formatting = << >>
          /\ tpc[<<"run", i>>] \in {"ended", "raised"}
    /\ \E i \in 1..Len(tasks) :
          /\ tasks[i].status = "failed"
          /\ tasks[i].formatting # << >>
          /\ tpc[<<"run", i>>] \in {"ended", "raised"}


\* the try statement of _run_task is over for task i: its thread is in the
\* finally block or beyond
TryOver(i) ==
    tpc[<<"run", i>>] \in {"finally", "lock", "check", "iter", "start", "ended", "raised"}

\* the moves of a task's formatting field the lifecycle allows
FormattingMoves ==
    { << << >>, <<"in_progress">> >>, << <<"in_progress">>, <<"done">> >>,
      << <<"in_progress">>, <<"failed">> >> }

\* C22: a task's formatting field follows None -> in_progress -> done / failed,
\* it becomes in_progress when transcription starts, and a task whose run has
\* reached a terminal status (done or failed) has formatting None, done or
\* failed, never in_progress.
C22_FormattingLifecycle ==
    [][\A i \in 1..Len(tasks) :
          /\ tasks'[i].formatting # tasks[i].formatting =>
                /\ <<tasks[i].formatting, tasks'[i].formatting>> \in FormattingMoves
                /\ tasks'[i].formatting = <<"in_progress">> =>
                       tasks'[i].status = "transcribing"
          /\ (TryOver(i)' /\ tasks'[i].status \in {"done", "failed"}) =>
                tasks'[i].formatting # <<"in_progress">>]_vars


-----------------------------------------------------------------------------
(* Properties of _split_text. *)

\* the positions of text[from:to] that hold a sentence separator
SeparatorsIn(from, to) ==
    {p \in from..(to - 1) : split_text[p + 1] \in Separators}

\* the largest member of a non-empty set of positions
LastOf(S) == CHOOSE p \in S : \A q \in S : q <= p

\* a pass of the loop cuts a chunk off a text whose rest is longer than chunk_size
CutsChunk == split_pc = "loop" /\ split_start' # split_start

\* the result partitions the text into chunks of at most chunk_size characters
BoundedPartition ==
    /\ \A k \in 1..Len(chunks) : Len(chunks[k]) <= chunk_size
    /\ Join(chunks, << >>) = split_text

-----------------------------------------------------------------------------
(* Properties of the segment loop's bookkeeping. *)

\* C24 as stated: every incoming segment's text is appended to the
\* accumulator and prev_end is set to that segment's end, so the gap tested
\* for a segment is measured from the end of the segment that immediately
\* precedes it in the source sequence.
C24_LastEndAsStated ==
    (pc = "loop" /\ pos > 0) =>
        /\ current_parts # << >>
        /\ current_parts[Len(current_parts)] = source[pos].text
        /\ prev_end = LastEnd(pos)

\* C24 (amended): every incoming segment whose text is not blank has its
\* stripped text appended to the accumulator and prev_end set to its end; a
\* blank segment changes neither; so the gap tested for a segment is
\* measured from the end of the last non-blank segment before it, 0 if
\* there is none.
C24_AppendAndLastEnd ==
    /\ [](pc = "loop" => prev_end = LastSpokenEnd(pos))
    /\ [][/\ AppendsSegment =>
               /\ current_parts' = Append(current_parts, Spoken(pos))
               /\ prev_end' = source[pos].end
          /\ (TakesSegment /\ Spoken(pos + 1) = << >>) =>
               /\ pc' = "loop"
               /\ current_parts' = current_parts
               /\ paragraphs' = paragraphs
               /\ prev_end' = prev_end
          /\ (TakesSegment /\ Spoken(pos + 1) # << >>) =>
               /\ pc' = "check"
               /\ prev_end' = prev_end
               /\ (Len(paragraphs') = Len(paragraphs) + 1 <=>
                      ShouldFlush(current_parts,
                                  source[pos + 1].start - LastSpokenEnd(pos),
                                  SumLen(current_parts)))]_vars

\* C24, its case: a blank segment that ended a pause was skipped and the
\* segment after it is in hand, its gap measured from the segment before the
\* blank one
C24_GapAcrossBlankSegment ==
    /\ pc = "check"
    /\ pos = 3
    /\ Spoken(1) # << >>
    /\ Spoken(2) = << >>
    /\ source[2].start - source[1].end >= GAP_THRESHOLD
    /\ source[3].start = source[2].end
    /\ prev_end = source[1].end
    /\ Len(paragraphs) = 1


-----------------------------------------------------------------------------
(* Properties of the rendering of a paragraph. *)

\* paragraph i (0-based) rendered from its recorded result if it has one,
\* from its raw text if it has none, under its heading if it has one
RenderedFromResult(i) ==
    (IF i \in DOMAIN chapter_headers
        THEN <<Piece("#", 2), Piece(" ", 1)>> \o chapter_headers[i] \o NL2
        ELSE << >>)
    \o (IF paragraphs[i + 1].formatted # << >> THEN paragraphs[i + 1].formatted[1]
        ELSE paragraphs[i + 1].raw)

\* C25: each paragraph of the assembled document is rendered from its
\* formatted text whenever a formatting result has been recorded for it, and
\* from its raw text only when none has been recorded, whatever value the
\* successful formatting call returned.
C25_RenderedFromRecordedResult ==
    pc = "done" =>
        storage = << <<Piece("#", 1), Piece(" ", 1)>> \o title \o NL2
                     \o Join([k \in 1..Len(paragraphs) |-> RenderedFromResult(k - 1)], NL2)
                     \o NL1 >>


-----------------------------------------------------------------------------
(* Properties of the observation of completions. *)

\* the drain is over: pending_futures.clear() has been executed
DrainOver == pc \in {"retry", "structure", "save", "done"}

\* C26: every submitted paragraph's completion is observed exactly once, by
\* the poll or by the drain and never by both: it is observed at most once at
\* any time and each observation adds 1 to formatted_count; its entry leaves
\* pending_futures once, observed, and never comes back; outside the drain
\* no entry of pending_futures is observed; when the drain is over pending_futures is
\* empty, every paragraph has been observed once and formatted_count is the
\* number of paragraphs.
C26_ObservedExactlyOnce ==
    /\ [](/\ \A i \in 0..(Len(paragraphs) - 1) : TimesObserved(i) <= 1
          /\ formatted_count = Len(observed)
          /\ pc # "drain" => \A i \in pending_futures : TimesObserved(i) = 0
          /\ DrainOver =>
                /\ pending_futures = {}
                /\ formatted_count = Len(paragraphs)
                /\ \A i \in 0..(Len(paragraphs) - 1) : TimesObserved(i) = 1)
    /\ [][\A i \in 0..(Len(paragraphs) - 1) :
             /\ i \notin pending_futures => i \notin pending_futures'
             /\ (i \in pending_futures /\ i \notin pending_futures') =>
                   \E k \in 1..Len(observed') : observed'[k] = i]_vars

\* C26, its case: the drain loop has just observed its last completion, a
\* paragraph that the poll had left pending, after the poll had observed
\* another one
C26_PollAndDrainShare ==
    /\ pc = "drain"
    /\ drainList = << >>
    /\ pending_futures # {}
    /\ Cardinality(pending_futures) < Len(paragraphs)
    /\ Len(observed) = Len(paragraphs)


-----------------------------------------------------------------------------
(* Properties of the order of the stages. *)

\* every job submitted to the executor has ended and has been observed
AllJobsObserved ==
    /\ workQueue = << >>
    /\ \A i \in 1..Len(futures) : futures[i].state = "done"
    /\ Len(futures) = Len(paragraphs)
    /\ \A i \in 0..(Len(paragraphs) - 1) : TimesObserved(i) = 1

\* paragraph i (0-based) is finalized: it has a formatted text, or its retry
\* call was made and failed
Finalized(i) ==
    \/ paragraphs[i + 1].formatted # << >>
    \/ retryCalls[i] = <<"fail">>

\* the step makes a retry call: a paragraph's list of retry outcomes grows
IssuesRetryCall ==
    \E i \in DOMAIN retryCalls : Len(retryCalls'[i]) > Len(retryCalls[i])

\* C27: no retry call is issued while a submitted formatting job is still
\* pending, queued or running: the retry stage starts only after every job
\* has been observed; the structure call is issued only after the retry
\* stage has finished, when every paragraph is finalized.
C27_StageOrdering ==
    /\ [](pc \in {"retry", "structure", "save", "done"} =>
             AllJobsObserved /\ pending_futures = {})
    /\ [][/\ IssuesRetryCall => pc = "retry" /\ AllJobsObserved
          /\ structCalls' # structCalls =>
                /\ pc = "structure"
                /\ retryList = << >>
                /\ \A i \in 0..(Len(paragraphs) - 1) : Finalized(i)
                /\ \A i \in 0..(Len(paragraphs) - 1) :
                      paragraphs[i + 1].formatted = << >> <=> retryCalls[i] = <<"fail">>]_vars

\* C27, its case: the structure call has been made after a retry call that
\* succeeded and one that failed
C27_StructureAfterRetries ==
    /\ pc = "save"
    /\ structCalls # << >>
    /\ \E i \in 0..(Len(paragraphs) - 1) : retryCalls[i] = <<"fail">>
    /\ \E i \in 0..(Len(paragraphs) - 1) : retryCalls[i] = <<"ok">>


-----------------------------------------------------------------------------
(* Properties of _call_llm. *)

\* a failure of the network class: its message holds the word connect or
\* timeout, in any letter case
NetworkClass(msg) == msg \in {MsgConnection, MsgReadTimeout}

-----------------------------------------------------------------------------
(* Properties of the progress counters. *)

\* C29: in every on_update call 0 <= formatted_count <= total_paragraphs;
\* from one call to the next neither formatted_count nor total_paragraphs
\* decreases; the last call after the drain has formatted_count =
\* total_paragraphs.
C29_CountersConsistent ==
    /\ [](onUpdate # << >> =>
             /\ 0 <= onUpdate[1].formatted_count
             /\ onUpdate[1].formatted_count <= onUpdate[1].total_paragraphs
             /\ onUpdate[1].total_paragraphs <= Len(paragraphs))
    /\ [][(updates' # updates /\ onUpdate # << >>) =>
             /\ onUpdate'[1].formatted_count >= onUpdate[1].formatted_count
             /\ onUpdate'[1].total_paragraphs >= onUpdate[1].total_paragraphs]_vars
    /\ [](DrainOver =>
             /\ onUpdate # << >>
             /\ onUpdate[1].total_paragraphs = Len(paragraphs)
             /\ onUpdate[1].formatted_count = onUpdate[1].total_paragraphs)

\* C29, its case: in the drain, on_update was last called with a count that
\* is behind the number of paragraphs
C29_CountBehindInDrain ==
    /\ pc = "drain"
    /\ onUpdate # << >>
    /\ onUpdate[1].formatted_count >= 1
    /\ onUpdate[1].formatted_count < onUpdate[1].total_paragraphs
    /\ onUpdate[1].total_paragraphs = 3


-----------------------------------------------------------------------------
(* Properties of the queue's progress. *)

\* C30: every task that was created leaves status queued in the end and is
\* executed to done or failed, whether or not a further task is submitted,
\* and tasks are started in the order of their creation.
C30_NoTaskStranded ==
    /\ \A i \in 1..MaxTasks :
          (Len(tasks) >= i) ~>
              (Len(tasks) >= i /\ tasks[i].status \in {"done", "failed"} /\ starts[i] = 1)
    /\ [][\A j \in 1..MaxTasks :
             starts'[j] > starts[j] => \A i \in 1..(j - 1) : starts[i] = 1]_vars

\* C30, its case: a task waits in the queue, no thread is on its way to
\* _process_next but the thread of the running task, whose own look at the
\* queue is still to come
C30_QueuedLeftToTheWorker ==
    /\ \E j \in 1..Len(tasks) : tasks[j].status = "queued" /\ starts[j] = 0
    /\ \A i \in 1..MaxTasks : tpc[<<"http", i>>] \in {"none", "responded", "raised"}
    /\ \E i \in 1..Len(tasks) : tpc[<<"run", i>>] = "transcribe"
    /\ \E t \in Threads : tpc[t] = "raised"

=============================================================================
